---- MODULE Spec2Model ----
(***************************************************************************)
(* Model of maxon::Maxon (src/src/maxon_epos_ethercat_sdk/Maxon.cpp): the  *)
(* CiA 402 drive lifecycle controller.  The specifications share the       *)
(* variables and the actions and differ in the inputs they draw:           *)
(*   Spec            the cyclic channel: updateRead / updateWrite with     *)
(*                   engagePdoStateMachine, stageCommand and requests      *)
(*                   setDriveStateViaPdo(target, false) for every target;  *)
(*   WaitSpec        the cyclic channel with a caller that may wait in     *)
(*                   setDriveStateViaPdo(target, true);                    *)
(*   LiveSpec        WaitSpec with the fairness of the clock and of the    *)
(*                   waiting caller;                                       *)
(*   CompletionSpec  the cyclic channel with one request at a time, an     *)
(*                   obeying drive and a fair cycle thread and clock;      *)
(*   ConcurrentSpec  WaitSpec with a second thread that calls              *)
(*                   setDriveStateViaPdo while the first caller waits;     *)
(*   TransitionSpec  the service channel: setDriveStateViaSdo and the      *)
(*                   transition tables evaluated on drawn inputs;          *)
(*   FrameSpec       the cyclic channel under every kind of configuration: *)
(*                   frame variants, multi-mode use, no mode;              *)
(*   ShutdownSpec    preShutdown from each of the six drive states;        *)
(*   StartupSpec     startup with the nominal current set or unset;        *)
(*   StageSpec       stageCommand of two threads interleaved step by step  *)
(*                   with updateWrite of the cycle thread;                 *)
(*   ReadSpec        getReading interleaved step by step with updateRead;  *)
(*   ThreadSpec      all threads interleaved step by step, and             *)
(*   ThreadLiveSpec  ThreadSpec with the fairness of the threads and of    *)
(*                   the lock acquisitions.                                *)
(* Time is kept as the elapsed durations the code computes                 *)
(* (steady_clock::now() minus a stored time point), each saturating one    *)
(* above the threshold it is compared with.                                *)
(***************************************************************************)
EXTENDS Naturals, Sequences, FiniteSets

\* ------------------------------------------------------------------ bounds

\* configuration_.driveStateChangeMinTimeout, in clock ticks
MinTimeout == 1
\* configuration_.driveStateChangeMaxTimeout, in clock ticks
MaxTimeout == 3
\* largest configured minNumberOfSuccessfulTargetStateReadings
MaxReadings == 2
\* the most control words the history of one request records
MaxIssued == 4

\* the targets requested over the cyclic channel
PdoTargets ==
  {"SwitchOnDisabled", "ReadyToSwitchOn", "SwitchedOn", "OperationEnabled",
   "QuickStopActive", "Fault"}

\* the drive states requested over the service channel and evaluated directly
TableStates ==
  {"SwitchOnDisabled", "ReadyToSwitchOn", "SwitchedOn", "OperationEnabled",
   "QuickStopActive", "Fault", "NotReadyToSwitchOn"}

\* the targets a waiting caller requests
WaitTargets == {"SwitchOnDisabled", "OperationEnabled"}

\* the modes of the commands staged during cyclic operation
StagedModes == {"NA", "CyclicSynchronousPositionMode"}

\* ------------------------------------------------------------ enumerations

\* the six drive states the switches of Maxon.cpp name
CommandableStates ==
  {"SwitchOnDisabled", "ReadyToSwitchOn", "SwitchedOn", "OperationEnabled",
   "QuickStopActive"}

SixStates == CommandableStates \cup {"Fault"}

\* a decoded state none of the inner switches names (their default: branches)
OtherStates == {"NotReadyToSwitchOn"}

DriveStates == SixStates \cup OtherStates

\* StateTransition::_2 .. _15; 0 is a control word with no transition set
StateTransitions == {2, 3, 4, 5, 6, 7, 8, 9, 10, 11, 12, 15}

ModesOfOperation ==
  {"NA", "CyclicSynchronousPositionMode", "CyclicSynchronousVelocityMode"}

\* ------------------------------------------------- the CiA 402 drive (bus)

\* the edge of the CiA 402 state machine each transition id stands for
Edge(t) ==
  CASE t = 2  -> [from |-> "SwitchOnDisabled", to |-> "ReadyToSwitchOn"]
    [] t = 3  -> [from |-> "ReadyToSwitchOn",  to |-> "SwitchedOn"]
    [] t = 4  -> [from |-> "SwitchedOn",       to |-> "OperationEnabled"]
    [] t = 5  -> [from |-> "OperationEnabled", to |-> "SwitchedOn"]
    [] t = 6  -> [from |-> "SwitchedOn",       to |-> "ReadyToSwitchOn"]
    [] t = 7  -> [from |-> "ReadyToSwitchOn",  to |-> "SwitchOnDisabled"]
    [] t = 8  -> [from |-> "OperationEnabled", to |-> "ReadyToSwitchOn"]
    [] t = 9  -> [from |-> "OperationEnabled", to |-> "SwitchOnDisabled"]
    [] t = 10 -> [from |-> "SwitchedOn",       to |-> "SwitchOnDisabled"]
    [] t = 11 -> [from |-> "OperationEnabled", to |-> "QuickStopActive"]
    [] t = 12 -> [from |-> "QuickStopActive",  to |-> "SwitchOnDisabled"]
    [] t = 15 -> [from |-> "Fault",            to |-> "SwitchOnDisabled"]

\* the drive performs a commanded transition when it is in the edge's source
Obey(state, t) ==
  IF t \in StateTransitions /\ Edge(t).from = state THEN Edge(t).to ELSE state

\* the state a drive reaches from `state` when it is sent `path` hop by hop
RECURSIVE ObeyAll(_, _)
ObeyAll(state, path) ==
  IF path = << >> THEN state ELSE ObeyAll(Obey(state, Head(path)), Tail(path))

\* every hop of `path` is an edge leaving the state the earlier hops reached
RECURSIVE LegalPath(_, _)
LegalPath(state, path) ==
  \/ path = << >>
  \/ /\ Head(path) \in StateTransitions
     /\ Edge(Head(path)).from = state
     /\ LegalPath(Edge(Head(path)).to, Tail(path))

\* --------------------------------------------------- the transition tables

\* setDriveStateViaSdo: the inner switch of each requested state, as the list
\* of stateTransitionViaSdo calls of the branch taken, in order; defined =
\* FALSE is a default: branch (SdoStateTransitionError, success = false)

\* the self-pair's branch lacks its break and runs into the next branch
SdoToSwitchOnDisabledFallThrough(current) ==
  CASE current = "SwitchOnDisabled"   -> [defined |-> TRUE, path |-> <<7>>]
    [] current = "ReadyToSwitchOn"    -> [defined |-> TRUE, path |-> <<7>>]
    [] current = "SwitchedOn"         -> [defined |-> TRUE, path |-> <<10>>]
    [] current = "OperationEnabled"   -> [defined |-> TRUE, path |-> <<9>>]
    [] current = "QuickStopActive"    -> [defined |-> TRUE, path |-> <<12>>]
    [] current = "Fault"              -> [defined |-> TRUE, path |-> <<15>>]
    [] OTHER                           -> [defined |-> FALSE, path |-> << >>]

\* case DriveState::SwitchOnDisabled of setDriveStateViaSdo
SdoToSwitchOnDisabled(current) ==
  CASE current = "SwitchOnDisabled"   -> [defined |-> TRUE, path |-> << >>]
    [] current = "ReadyToSwitchOn"    -> [defined |-> TRUE, path |-> <<7>>]
    [] current = "SwitchedOn"         -> [defined |-> TRUE, path |-> <<10>>]
    [] current = "OperationEnabled"   -> [defined |-> TRUE, path |-> <<9>>]
    [] current = "QuickStopActive"    -> [defined |-> TRUE, path |-> <<12>>]
    [] current = "Fault"              -> [defined |-> TRUE, path |-> <<15>>]
    [] OTHER                           -> [defined |-> FALSE, path |-> << >>]

\* case DriveState::ReadyToSwitchOn of setDriveStateViaSdo
SdoToReadyToSwitchOn(current) ==
  CASE current = "SwitchOnDisabled"   -> [defined |-> TRUE, path |-> <<2>>]
    [] current = "ReadyToSwitchOn"    -> [defined |-> TRUE, path |-> << >>]
    [] current = "SwitchedOn"         -> [defined |-> TRUE, path |-> <<6>>]
    [] current = "OperationEnabled"   -> [defined |-> TRUE, path |-> <<8>>]
    [] current = "QuickStopActive"    -> [defined |-> TRUE, path |-> <<12, 2>>]
    [] current = "Fault"              -> [defined |-> TRUE, path |-> <<15, 2>>]
    [] OTHER                           -> [defined |-> FALSE, path |-> << >>]

\* case DriveState::SwitchedOn of setDriveStateViaSdo
SdoToSwitchedOn(current) ==
  CASE current = "SwitchOnDisabled"   -> [defined |-> TRUE, path |-> <<2, 3>>]
    [] current = "ReadyToSwitchOn"    -> [defined |-> TRUE, path |-> <<3>>]
    [] current = "SwitchedOn"         -> [defined |-> TRUE, path |-> << >>]
    [] current = "OperationEnabled"   -> [defined |-> TRUE, path |-> <<5>>]
    [] current = "QuickStopActive"    -> [defined |-> TRUE, path |-> <<12, 2, 3>>]
    [] current = "Fault"              -> [defined |-> TRUE, path |-> <<15, 2, 3>>]
    [] OTHER                           -> [defined |-> FALSE, path |-> << >>]

\* the QuickStopActive branch lacks its break and runs into the Fault branch
SdoToOperationEnabledFallThrough(current) ==
  CASE current = "SwitchOnDisabled"   -> [defined |-> TRUE, path |-> <<2, 3, 4>>]
    [] current = "ReadyToSwitchOn"    -> [defined |-> TRUE, path |-> <<3, 4>>]
    [] current = "SwitchedOn"         -> [defined |-> TRUE, path |-> <<4>>]
    [] current = "OperationEnabled"   -> [defined |-> TRUE, path |-> << >>]
    [] current = "QuickStopActive"    -> [defined |-> TRUE, path |-> <<12, 2, 3, 4, 15, 2, 3, 4>>]
    [] current = "Fault"              -> [defined |-> TRUE, path |-> <<15, 2, 3, 4>>]
    [] OTHER                           -> [defined |-> FALSE, path |-> << >>]

\* case DriveState::OperationEnabled of setDriveStateViaSdo
SdoToOperationEnabled(current) ==
  CASE current = "SwitchOnDisabled"   -> [defined |-> TRUE, path |-> <<2, 3, 4>>]
    [] current = "ReadyToSwitchOn"    -> [defined |-> TRUE, path |-> <<3, 4>>]
    [] current = "SwitchedOn"         -> [defined |-> TRUE, path |-> <<4>>]
    [] current = "OperationEnabled"   -> [defined |-> TRUE, path |-> << >>]
    [] current = "QuickStopActive"    -> [defined |-> TRUE, path |-> <<12, 2, 3, 4>>]
    [] current = "Fault"              -> [defined |-> TRUE, path |-> <<15, 2, 3, 4>>]
    [] OTHER                           -> [defined |-> FALSE, path |-> << >>]

\* the path from ReadyToSwitchOn skips transition 3
SdoToQuickStopActiveSkipping(current) ==
  CASE current = "SwitchOnDisabled"   -> [defined |-> TRUE, path |-> <<2, 3, 4, 11>>]
    [] current = "ReadyToSwitchOn"    -> [defined |-> TRUE, path |-> <<4, 11>>]
    [] current = "SwitchedOn"         -> [defined |-> TRUE, path |-> <<4, 11>>]
    [] current = "OperationEnabled"   -> [defined |-> TRUE, path |-> <<11>>]
    [] current = "QuickStopActive"    -> [defined |-> TRUE, path |-> << >>]
    [] current = "Fault"              -> [defined |-> TRUE, path |-> <<15, 2, 3, 4, 11>>]
    [] OTHER                           -> [defined |-> FALSE, path |-> << >>]

\* case DriveState::QuickStopActive of setDriveStateViaSdo
SdoToQuickStopActive(current) ==
  CASE current = "SwitchOnDisabled"   -> [defined |-> TRUE, path |-> <<2, 3, 4, 11>>]
    [] current = "ReadyToSwitchOn"    -> [defined |-> TRUE, path |-> <<3, 4, 11>>]
    [] current = "SwitchedOn"         -> [defined |-> TRUE, path |-> <<4, 11>>]
    [] current = "OperationEnabled"   -> [defined |-> TRUE, path |-> <<11>>]
    [] current = "QuickStopActive"    -> [defined |-> TRUE, path |-> << >>]
    [] current = "Fault"              -> [defined |-> TRUE, path |-> <<15, 2, 3, 4, 11>>]
    [] OTHER                           -> [defined |-> FALSE, path |-> << >>]

\* the most stateTransitionViaSdo calls of one branch (Fault to QuickStopActive)
LongestSdoPath == 5

\* setDriveStateViaSdo: the outer switch on the requested state
SdoTransitions(requested, current) ==
  CASE requested = "SwitchOnDisabled" -> SdoToSwitchOnDisabled(current)
    [] requested = "ReadyToSwitchOn"  -> SdoToReadyToSwitchOn(current)
    [] requested = "SwitchedOn"       -> SdoToSwitchedOn(current)
    [] requested = "OperationEnabled" -> SdoToOperationEnabled(current)
    [] requested = "QuickStopActive"  -> SdoToQuickStopActive(current)
    [] OTHER                          -> [defined |-> FALSE, path |-> << >>]

\* getNextStateTransitionControlword: the inner switch of each requested state;
\* the control word returned (0 after setAllFalse alone) and whether
\* PdoStateTransitionError is added to the Reading

\* case DriveState::SwitchOnDisabled of getNextStateTransitionControlword
NextToSwitchOnDisabled(currentDriveState) ==
  CASE currentDriveState = "SwitchOnDisabled"   -> [controlword |-> 0, error |-> TRUE]
    [] currentDriveState = "ReadyToSwitchOn"    -> [controlword |-> 7, error |-> FALSE]
    [] currentDriveState = "SwitchedOn"         -> [controlword |-> 10, error |-> FALSE]
    [] currentDriveState = "OperationEnabled"   -> [controlword |-> 9, error |-> FALSE]
    [] currentDriveState = "QuickStopActive"    -> [controlword |-> 12, error |-> FALSE]
    [] currentDriveState = "Fault"              -> [controlword |-> 15, error |-> FALSE]
    [] OTHER                                     -> [controlword |-> 0, error |-> TRUE]

\* case DriveState::ReadyToSwitchOn of getNextStateTransitionControlword
NextToReadyToSwitchOn(currentDriveState) ==
  CASE currentDriveState = "SwitchOnDisabled"   -> [controlword |-> 2, error |-> FALSE]
    [] currentDriveState = "ReadyToSwitchOn"    -> [controlword |-> 0, error |-> TRUE]
    [] currentDriveState = "SwitchedOn"         -> [controlword |-> 6, error |-> FALSE]
    [] currentDriveState = "OperationEnabled"   -> [controlword |-> 8, error |-> FALSE]
    [] currentDriveState = "QuickStopActive"    -> [controlword |-> 12, error |-> FALSE]
    [] currentDriveState = "Fault"              -> [controlword |-> 15, error |-> FALSE]
    [] OTHER                                     -> [controlword |-> 0, error |-> TRUE]

\* OperationEnabled is left for ReadyToSwitchOn (8) instead of SwitchedOn (5)
NextToSwitchedOnViaReady(currentDriveState) ==
  CASE currentDriveState = "SwitchOnDisabled"   -> [controlword |-> 2, error |-> FALSE]
    [] currentDriveState = "ReadyToSwitchOn"    -> [controlword |-> 3, error |-> FALSE]
    [] currentDriveState = "SwitchedOn"         -> [controlword |-> 0, error |-> TRUE]
    [] currentDriveState = "OperationEnabled"   -> [controlword |-> 8, error |-> FALSE]
    [] currentDriveState = "QuickStopActive"    -> [controlword |-> 12, error |-> FALSE]
    [] currentDriveState = "Fault"              -> [controlword |-> 15, error |-> FALSE]
    [] OTHER                                     -> [controlword |-> 0, error |-> TRUE]

\* case DriveState::SwitchedOn of getNextStateTransitionControlword
NextToSwitchedOn(currentDriveState) ==
  CASE currentDriveState = "SwitchOnDisabled"   -> [controlword |-> 2, error |-> FALSE]
    [] currentDriveState = "ReadyToSwitchOn"    -> [controlword |-> 3, error |-> FALSE]
    [] currentDriveState = "SwitchedOn"         -> [controlword |-> 0, error |-> TRUE]
    [] currentDriveState = "OperationEnabled"   -> [controlword |-> 5, error |-> FALSE]
    [] currentDriveState = "QuickStopActive"    -> [controlword |-> 12, error |-> FALSE]
    [] currentDriveState = "Fault"              -> [controlword |-> 15, error |-> FALSE]
    [] OTHER                                     -> [controlword |-> 0, error |-> TRUE]

\* case DriveState::OperationEnabled of getNextStateTransitionControlword
NextToOperationEnabled(currentDriveState) ==
  CASE currentDriveState = "SwitchOnDisabled"   -> [controlword |-> 2, error |-> FALSE]
    [] currentDriveState = "ReadyToSwitchOn"    -> [controlword |-> 3, error |-> FALSE]
    [] currentDriveState = "SwitchedOn"         -> [controlword |-> 4, error |-> FALSE]
    [] currentDriveState = "OperationEnabled"   -> [controlword |-> 0, error |-> TRUE]
    [] currentDriveState = "QuickStopActive"    -> [controlword |-> 12, error |-> FALSE]
    [] currentDriveState = "Fault"              -> [controlword |-> 15, error |-> FALSE]
    [] OTHER                                     -> [controlword |-> 0, error |-> TRUE]

\* case DriveState::QuickStopActive of getNextStateTransitionControlword
NextToQuickStopActive(currentDriveState) ==
  CASE currentDriveState = "SwitchOnDisabled"   -> [controlword |-> 2, error |-> FALSE]
    [] currentDriveState = "ReadyToSwitchOn"    -> [controlword |-> 3, error |-> FALSE]
    [] currentDriveState = "SwitchedOn"         -> [controlword |-> 4, error |-> FALSE]
    [] currentDriveState = "OperationEnabled"   -> [controlword |-> 11, error |-> FALSE]
    [] currentDriveState = "QuickStopActive"    -> [controlword |-> 0, error |-> TRUE]
    [] currentDriveState = "Fault"              -> [controlword |-> 15, error |-> FALSE]
    [] OTHER                                     -> [controlword |-> 0, error |-> TRUE]

\* the outer switch has no case for QuickStopActive
getNextStateTransitionControlwordWithoutQuickStop(requestedDriveState, currentDriveState) ==
  CASE requestedDriveState = "SwitchOnDisabled" -> NextToSwitchOnDisabled(currentDriveState)
    [] requestedDriveState = "ReadyToSwitchOn"  -> NextToReadyToSwitchOn(currentDriveState)
    [] requestedDriveState = "SwitchedOn"       -> NextToSwitchedOn(currentDriveState)
    [] requestedDriveState = "OperationEnabled" -> NextToOperationEnabled(currentDriveState)
    [] OTHER                                    -> [controlword |-> 0, error |-> TRUE]

\* getNextStateTransitionControlword: the outer switch on the requested state
getNextStateTransitionControlword(requestedDriveState, currentDriveState) ==
  CASE requestedDriveState = "SwitchOnDisabled" -> NextToSwitchOnDisabled(currentDriveState)
    [] requestedDriveState = "ReadyToSwitchOn"  -> NextToReadyToSwitchOn(currentDriveState)
    [] requestedDriveState = "SwitchedOn"       -> NextToSwitchedOn(currentDriveState)
    [] requestedDriveState = "OperationEnabled" -> NextToOperationEnabled(currentDriveState)
    [] requestedDriveState = "QuickStopActive"  -> NextToQuickStopActive(currentDriveState)
    [] OTHER                                    -> [controlword |-> 0, error |-> TRUE]

\* ------------------------------------------------------------------- state

VARIABLES
  configuration_,      \* the loaded Configuration (fixed after loadConfiguration)
  allowModeChange_,
  modeOfOperation_,
  stagedCommand_,      \* the staged Command: mode, targets and their wire values
  reading_,            \* the Reading: [driveState, errors]
  controlword_,        \* transition id of the cyclic control word, 0 = none set
  conductStateChange_,
  hasRead_,
  stateChangeSuccessful_,
  targetDriveState_,
  numberOfSuccessfulTargetStateReadings_,
  microsecondsSinceChange,  \* now() - driveStateChangeTimePoint_
  mutex_,              \* the thread holding mutex_: "none" or "caller"
  caller,              \* the thread in setDriveStateViaPdo: [pc, driveState, waitForState, returned]
  microsecondsSinceStart,   \* now() - driveStateChangeStartTimePoint of the caller
  drive,               \* the state of the drive on the bus
  rxPdo,               \* the last frame written to the bus
  sdo,                 \* the last setDriveStateViaSdo call and what it did
  pdoNext,             \* the last direct getNextStateTransitionControlword call
  hist,                \* what happened to the current request (never read by the code)
  lastWrite,           \* what the last updateWrite call did: [frames, error]
  stageError,          \* the last stageCommand call wrote its error message to the log
  stagedCommandMutex_, \* the thread holding stagedCommandMutex_, or "none"
  readingMutex_,       \* the thread holding readingMutex_, or "none"
  preShutdownCall,     \* the last preShutdown call: [called, initial, issued, ok, reached]
  startupCall,         \* the last startup call: [called, before, attempted, failed, success]
  position,            \* the actual position the drive reports on the bus
  threads              \* where each thread stands inside its call, and its locals

cfgVars == <<configuration_, allowModeChange_>>
cycleVars ==
  <<modeOfOperation_, stagedCommand_, reading_, controlword_, conductStateChange_,
    hasRead_, stateChangeSuccessful_, targetDriveState_,
    numberOfSuccessfulTargetStateReadings_, microsecondsSinceChange>>
callerVars == <<mutex_, caller, microsecondsSinceStart>>
busVars == <<drive, rxPdo>>
tableVars == <<sdo, pdoNext>>
\* the locks, and the records of the calls made outside cyclic operation
fineVars ==
  <<stagedCommandMutex_, readingMutex_, preShutdownCall, startupCall, position, threads>>
vars ==
  <<cfgVars, cycleVars, callerVars, busVars, tableVars, hist, lastWrite, stageError,
    fineVars>>

\* ------------------------------------------------------------ configuration

\* the configurations drawn: the standard frame variant in both directions,
\* with multi-mode use and the largest minimum of confirming readings, or
\* without multi-mode use and a minimum of one reading
Configurations ==
  [rxPdoTypeEnum : {"RxPdoStandard"}, txPdoTypeEnum : {"TxPdoStandard"},
   useMultipleModeOfOperations : {TRUE},
   modeOfOperationEnum : {"CyclicSynchronousPositionMode"},
   minNumberOfSuccessfulTargetStateReadings : {MaxReadings},
   driveStateChangeMinTimeout : {MinTimeout},
   driveStateChangeMaxTimeout : {MaxTimeout},
   positionEncoderResolution : {4},
   nominalCurrentA : {2}]
  \cup
  [rxPdoTypeEnum : {"RxPdoStandard"}, txPdoTypeEnum : {"TxPdoStandard"},
   useMultipleModeOfOperations : {FALSE},
   modeOfOperationEnum : {"CyclicSynchronousPositionMode"},
   minNumberOfSuccessfulTargetStateReadings : {1},
   driveStateChangeMinTimeout : {MinTimeout},
   driveStateChangeMaxTimeout : {MaxTimeout},
   positionEncoderResolution : {4},
   nominalCurrentA : {2}]

\* the frame variants are not looked at
AllowModeChangeAnyFrame(configuration) == configuration.useMultipleModeOfOperations

\* loadConfiguration: whether the mode of operation may change
AllowModeChange(configuration) ==
  /\ configuration.useMultipleModeOfOperations
  /\ configuration.rxPdoTypeEnum = "RxPdoStandard"
  /\ configuration.txPdoTypeEnum = "TxPdoStandard"

\* the frame variants the switch of updateWrite names
SupportedRxPdoTypes ==
  {"RxPdoStandard", "RxPdoCSP", "RxPdoCST", "RxPdoCSV", "RxPdoCSTCSP", "RxPdoPVM"}

\* the frame variants the switch of updateRead names
SupportedTxPdoTypes ==
  {"TxPdoStandard", "TxPdoCSP", "TxPdoCST", "TxPdoCSV", "TxPdoCSTCSP", "TxPdoPVM"}

\* an elapsed duration one tick later, saturating at `cap`
Later(elapsed, cap) == IF elapsed < cap THEN elapsed + 1 ELSE elapsed

NoHistory ==
  [completionSignalled |-> FALSE, armedAtZero |-> TRUE, rearmed |-> FALSE,
   confirmingEvaluations |-> 0, interrupted |-> FALSE,
   microsecondsSinceControlword |-> MinTimeout + 1,
   scenario |-> FALSE, issued |-> << >>, decodedSinceEvaluation |-> FALSE]

\* a Command as a caller builds it: the wire values are not computed yet
Command(mode, targetPosition, positionOffset) ==
  [modeOfOperation |-> mode,
   targetPosition |-> targetPosition, positionOffset |-> positionOffset,
   targetPositionRaw |-> 0, positionOffsetRaw |-> 0]

\* Command::doUnitConversion with the factor stageCommand sets: positions are
\* in turns, the wire value is in encoder increments
doUnitConversion(command) ==
  [command EXCEPT
     !.targetPositionRaw = command.targetPosition * configuration_.positionEncoderResolution,
     !.positionOffsetRaw = command.positionOffset * configuration_.positionEncoderResolution]

\* the commands staged during cyclic operation
StagedCommands == {Command(mode, 1, 1) : mode \in StagedModes}

\* the output frame before the first updateWrite
NoFrame ==
  [variant |-> "NA", controlWord_ |-> 0, modeOfOperation_ |-> "NA",
   targetPosition_ |-> 0, positionOffset_ |-> 0]

\* no updateWrite call yet
NoWrite == [frames |-> 0, error |-> "none"]

NoSdoCall ==
  [requested |-> "NA", current |-> "NA", readOk |-> TRUE, failedWrite |-> 0,
   issued |-> << >>, reached |-> "NA", success |-> TRUE, error |-> FALSE]

\* the threads that stage commands
Stagers == {"stagerA", "stagerB"}

\* every thread outside its call
NoThreads ==
  [stager |-> [s \in Stagers |-> [pc |-> "idle", command |-> Command("NA", 0, 0)]],
   cycle |-> [pc |-> "idle", txPdo |-> [statusword |-> "NA", actualPosition |-> 0],
              before |-> [driveState |-> "NA", actualPosition |-> 0, errors |-> {}],
              targetPosition_ |-> 0, positionOffset_ |-> 0],
   reader |-> [pc |-> "idle", returned |-> FALSE, during |-> FALSE,
               reading |-> [driveState |-> "NA", actualPosition |-> 0, errors |-> {}],
               before |-> [driveState |-> "NA", actualPosition |-> 0, errors |-> {}],
               after |-> [driveState |-> "NA", actualPosition |-> 0, errors |-> {}]]]

NoStartupCall ==
  [called |-> FALSE, before |-> "NA", attempted |-> {}, failed |-> {}, success |-> TRUE]

NoPreShutdownCall ==
  [called |-> FALSE, initial |-> "NA", issued |-> << >>, ok |-> TRUE, reached |-> "NA"]

NoPdoNextCall ==
  [requested |-> "NA", current |-> "NA", controlword |-> 0, error |-> FALSE]

\* the object after construction and loadConfiguration(configuration)
loadConfiguration(configuration) ==
  /\ configuration_ = configuration
  /\ allowModeChange_ = AllowModeChange(configuration)
  /\ modeOfOperation_ = configuration.modeOfOperationEnum
  /\ stagedCommand_ = Command("NA", 0, 0)
  /\ reading_ = [driveState |-> "NA", actualPosition |-> 0, errors |-> {}]
  /\ controlword_ = 0
  /\ conductStateChange_ = FALSE
  /\ hasRead_ = FALSE
  /\ stateChangeSuccessful_ = FALSE
  /\ targetDriveState_ = "NA"
  /\ numberOfSuccessfulTargetStateReadings_ = 0
  /\ microsecondsSinceChange = MinTimeout + 1
  /\ mutex_ = "none"
  /\ caller = [pc |-> "idle", driveState |-> "NA", waitForState |-> FALSE, returned |-> "none"]
  /\ microsecondsSinceStart = 0
  /\ rxPdo = NoFrame
  /\ sdo = NoSdoCall
  /\ pdoNext = NoPdoNextCall
  /\ hist = NoHistory
  /\ lastWrite = NoWrite
  /\ stageError = FALSE
  /\ stagedCommandMutex_ = "none"
  /\ readingMutex_ = "none"
  /\ preShutdownCall = NoPreShutdownCall
  /\ startupCall = NoStartupCall
  /\ position = 0
  /\ threads = NoThreads

Init ==
  /\ \E configuration \in Configurations : loadConfiguration(configuration)
  /\ drive \in SixStates

\* ---------------------------------------------------------- the cycle thread

\* a first confirming reading is taken for enough
EnoughReadingsAtOnce(n) == n >= 1

\* engagePdoStateMachine, line 991: enough confirming readings
EnoughReadings(n) == n >= configuration_.minNumberOfSuccessfulTargetStateReadings

\* the dwell is not waited for
DwellIgnored == TRUE

\* engagePdoStateMachine, line 1000: the minimum dwell has elapsed
DwellElapsed == microsecondsSinceChange > configuration_.driveStateChangeMinTimeout

\* the controller is engaged without a frame read since its last evaluation
EngagedWithoutRead == conductStateChange_

\* updateWrite, line 162: the lifecycle controller is engaged in this call
Engaged == conductStateChange_ /\ hasRead_

\* engagePdoStateMachine, line 987: the decoded state equals the target
TargetReached == reading_.driveState = targetDriveState_

\* engagePdoStateMachine, lines 987-998: this evaluation completes the change
Completes ==
  Engaged /\ TargetReached /\ EnoughReadings(numberOfSuccessfulTargetStateReadings_ + 1)

\* engagePdoStateMachine, lines 1000-1005: this evaluation replaces controlword_
Replaces == Engaged /\ ~TargetReached /\ DwellElapsed

\* the frame updateWrite builds for the configured variant: RxPdoStandard
\* (control word and active mode) or RxPdoCSP (targets, control word and the
\* staged command's mode); a field the variant lacks is 0
RxPdoFrame(cw) ==
  IF configuration_.rxPdoTypeEnum = "RxPdoStandard"
  THEN [variant |-> "RxPdoStandard", controlWord_ |-> cw,
        modeOfOperation_ |-> modeOfOperation_,
        targetPosition_ |-> 0, positionOffset_ |-> 0]
  ELSE [variant |-> configuration_.rxPdoTypeEnum, controlWord_ |-> cw,
        modeOfOperation_ |-> stagedCommand_.modeOfOperation,
        targetPosition_ |-> stagedCommand_.targetPositionRaw,
        positionOffset_ |-> stagedCommand_.positionOffsetRaw]

\* what the history records of one engagePdoStateMachine evaluation
EngagedHistory(nextCw) ==
  [hist EXCEPT
     !.completionSignalled = @ \/ Completes,
     !.confirmingEvaluations =
        IF TargetReached
        THEN Later(@, configuration_.minNumberOfSuccessfulTargetStateReadings)
        ELSE @,
     !.interrupted = @ \/ (~TargetReached /\ hist.confirmingEvaluations > 0),
     !.microsecondsSinceControlword = IF Replaces THEN 0 ELSE @,
     !.decodedSinceEvaluation = FALSE,
     !.issued =
        IF Replaces /\ hist.scenario /\ Len(@) < MaxIssued
        THEN Append(@, [transition |-> nextCw,
                        dwell |-> hist.microsecondsSinceControlword])
        ELSE @]

\* the Reading after the frame [statusword, actualPosition] is decoded into it:
\* TxPdoStandard carries the status word only
Decoded(reading, txPdo) ==
  [reading EXCEPT
     !.driveState = txPdo.statusword,
     !.actualPosition =
        IF configuration_.txPdoTypeEnum = "TxPdoStandard" THEN @
        ELSE txPdo.actualPosition]

\* bus_->readTxPdo: the frame the drive sends
readTxPdo == [statusword |-> drive, actualPosition |-> position]

\* updateRead: one frame is decoded into the Reading; hasRead_ is set
updateRead ==
  /\ mutex_ = "none"
  /\ reading_' =
       IF configuration_.txPdoTypeEnum \in SupportedTxPdoTypes
       THEN Decoded(reading_, readTxPdo)
       ELSE [reading_ EXCEPT !.errors = @ \cup {"TxPdoTypeError"}]
  /\ hasRead_' = TRUE
  /\ hist' = [hist EXCEPT !.decodedSinceEvaluation =
                 @ \/ configuration_.txPdoTypeEnum \in SupportedTxPdoTypes]
  /\ UNCHANGED <<fineVars, stageError, lastWrite, cfgVars, modeOfOperation_, stagedCommand_, controlword_,
                 conductStateChange_, stateChangeSuccessful_, targetDriveState_,
                 numberOfSuccessfulTargetStateReadings_, microsecondsSinceChange,
                 callerVars, busVars, tableVars>>

\* the return after ModeOfOperationError is missing: the frame is written
updateWriteNoModeStillWrites ==
  /\ mutex_ = "none"
  /\ modeOfOperation_ = "NA"
  /\ reading_' = [reading_ EXCEPT !.errors = @ \cup {"ModeOfOperationError"}]
  /\ lastWrite' = [frames |-> 1, error |-> "ModeOfOperationError"]
  /\ rxPdo' = RxPdoFrame(controlword_)
  /\ UNCHANGED <<fineVars, stageError, cfgVars, modeOfOperation_, stagedCommand_,
                 controlword_, conductStateChange_, hasRead_, stateChangeSuccessful_,
                 targetDriveState_, numberOfSuccessfulTargetStateReadings_,
                 microsecondsSinceChange, callerVars, drive, tableVars, hist>>

\* updateWrite with no mode of operation: ModeOfOperationError, nothing written
updateWriteNoMode ==
  /\ mutex_ = "none"
  /\ modeOfOperation_ = "NA"
  /\ reading_' = [reading_ EXCEPT !.errors = @ \cup {"ModeOfOperationError"}]
  /\ lastWrite' = [frames |-> 0, error |-> "ModeOfOperationError"]
  /\ UNCHANGED <<fineVars, stageError, cfgVars, modeOfOperation_, stagedCommand_, controlword_,
                 conductStateChange_, hasRead_, stateChangeSuccessful_,
                 targetDriveState_, numberOfSuccessfulTargetStateReadings_,
                 microsecondsSinceChange, callerVars, busVars, tableVars, hist>>

\* updateWrite with a mode of operation: engagePdoStateMachine when a change is
\* pending and a frame was read, then the frame of the configured variant
updateWrite ==
  /\ mutex_ = "none"
  /\ modeOfOperation_ # "NA"
  /\ LET next == getNextStateTransitionControlword(targetDriveState_, reading_.driveState)
         cw == IF Replaces THEN next.controlword ELSE controlword_
         pdoError == IF Replaces /\ next.error THEN {"PdoStateTransitionError"} ELSE {}
     IN /\ controlword_' = cw
        /\ microsecondsSinceChange' = IF Replaces THEN 0 ELSE microsecondsSinceChange
        /\ numberOfSuccessfulTargetStateReadings_' =
             IF Completes THEN 0
             ELSE IF Engaged /\ TargetReached
                  THEN numberOfSuccessfulTargetStateReadings_ + 1
                  ELSE numberOfSuccessfulTargetStateReadings_
        /\ conductStateChange_' = IF Completes THEN FALSE ELSE conductStateChange_
        /\ stateChangeSuccessful_' = IF Completes THEN TRUE ELSE stateChangeSuccessful_
        /\ hasRead_' = IF Engaged /\ ~Completes THEN FALSE ELSE hasRead_
        /\ hist' = IF Engaged THEN EngagedHistory(next.controlword) ELSE hist
        /\ IF configuration_.rxPdoTypeEnum \in SupportedRxPdoTypes
           THEN /\ rxPdo' = RxPdoFrame(cw)
                /\ drive' = Obey(drive, cw)
                /\ reading_' = [reading_ EXCEPT !.errors = @ \cup pdoError]
                /\ lastWrite' = [frames |-> 1, error |-> "none"]
           ELSE /\ UNCHANGED busVars
                /\ reading_' =
                     [reading_ EXCEPT !.errors = @ \cup pdoError \cup {"RxPdoTypeError"}]
                /\ lastWrite' = [frames |-> 0, error |-> "RxPdoTypeError"]
  /\ UNCHANGED <<fineVars, stageError, cfgVars, modeOfOperation_, stagedCommand_, targetDriveState_,
                 callerVars, tableVars>>

\* the command's mode is taken over whatever the configuration allows
ModeAfterStageUnchecked(command) == command.modeOfOperation

\* stageCommand, lines 364-367: the active mode after the call
ModeAfterStage(command) ==
  IF allowModeChange_ THEN command.modeOfOperation ELSE modeOfOperation_

\* stageCommand, lines 368-376: the change of mode is refused with a message
\* on the error log
StageRejected(command) ==
  /\ ~allowModeChange_
  /\ modeOfOperation_ # command.modeOfOperation
  /\ command.modeOfOperation # "NA"

\* stageCommand(command): the staged command is replaced; the active mode
\* follows the command's only when mode changes are allowed
stageCommand(command) ==
  /\ stagedCommandMutex_ = "none"
  /\ stagedCommand_' = doUnitConversion(command)
  /\ modeOfOperation_' = ModeAfterStage(command)
  /\ stageError' = StageRejected(command)
  /\ UNCHANGED <<fineVars, lastWrite, cfgVars, reading_, controlword_, conductStateChange_, hasRead_,
                 stateChangeSuccessful_, targetDriveState_,
                 numberOfSuccessfulTargetStateReadings_, microsecondsSinceChange,
                 callerVars, busVars, tableVars, hist>>

\* ------------------------------------------------ setDriveStateViaPdo caller

\* the wait is given up one tick early
WaitTimedOutEarly == microsecondsSinceStart >= configuration_.driveStateChangeMaxTimeout

\* setDriveStateViaPdo, lines 748-750: the wait has lasted too long
WaitTimedOut == microsecondsSinceStart > configuration_.driveStateChangeMaxTimeout

\* setDriveStateViaPdo, lines 702-731: the request is armed under mutex_; with
\* waitForState = false the call unlocks and returns true
setDriveStateViaPdo(driveState, waitForState) ==
  /\ caller.pc = "idle"
  /\ mutex_ = "none"
  /\ stateChangeSuccessful_' = FALSE
  /\ conductStateChange_' = TRUE
  /\ targetDriveState_' = driveState
  /\ hasRead_' = FALSE
  /\ microsecondsSinceChange' = 0
  /\ microsecondsSinceStart' = 0
  /\ mutex_' = IF waitForState THEN "caller" ELSE "none"
  /\ caller' = [pc |-> IF waitForState THEN "check" ELSE "idle",
                driveState |-> driveState,
                waitForState |-> waitForState,
                returned |-> IF waitForState THEN "none" ELSE "true"]
  /\ hist' = [hist EXCEPT
                !.completionSignalled = FALSE,
                !.armedAtZero = (numberOfSuccessfulTargetStateReadings_ = 0),
                !.rearmed = (conductStateChange_ /\ targetDriveState_ # driveState),
                !.confirmingEvaluations = 0,
                !.interrupted = FALSE,
                !.scenario = (/\ drive = "SwitchOnDisabled"
                              /\ driveState = "OperationEnabled"
                              /\ Obey(drive, controlword_) = drive),
                !.issued = << >>,
                !.decodedSinceEvaluation = FALSE]
  /\ UNCHANGED <<fineVars, stageError, lastWrite, cfgVars, modeOfOperation_, stagedCommand_, reading_, controlword_,
                 numberOfSuccessfulTargetStateReadings_, busVars, tableVars>>

\* the wait loop, lines 739-743 and 761-762: the flag is set, the call returns true
PdoWaitSuccess ==
  /\ caller.pc = "check"
  /\ stateChangeSuccessful_
  /\ mutex_' = "none"
  /\ caller' = [caller EXCEPT !.pc = "idle", !.returned = "true"]
  /\ UNCHANGED <<fineVars, stageError, lastWrite, cfgVars, cycleVars, microsecondsSinceStart, busVars, tableVars, hist>>

\* on timeout the pending request is cleared
PdoWaitTimeoutClears ==
  /\ caller.pc = "check"
  /\ ~stateChangeSuccessful_
  /\ microsecondsSinceStart > configuration_.driveStateChangeMaxTimeout
  /\ mutex_' = "none"
  /\ caller' = [caller EXCEPT !.pc = "idle", !.returned = "false"]
  /\ conductStateChange_' = FALSE
  /\ UNCHANGED <<fineVars, stageError, lastWrite, cfgVars, modeOfOperation_, stagedCommand_, reading_, controlword_,
                 hasRead_, stateChangeSuccessful_, targetDriveState_,
                 numberOfSuccessfulTargetStateReadings_, microsecondsSinceChange,
                 microsecondsSinceStart, busVars, tableVars, hist>>

\* the wait loop, lines 748-753 and 761-762: timed out, the call returns false
PdoWaitTimeout ==
  /\ caller.pc = "check"
  /\ ~stateChangeSuccessful_
  /\ WaitTimedOut
  /\ mutex_' = "none"
  /\ caller' = [caller EXCEPT !.pc = "idle", !.returned = "false"]
  /\ UNCHANGED <<fineVars, stageError, lastWrite, cfgVars, cycleVars, microsecondsSinceStart, busVars, tableVars, hist>>

\* the caller sleeps without unlocking
PdoWaitSleepLocked ==
  /\ caller.pc = "check"
  /\ ~stateChangeSuccessful_
  /\ ~WaitTimedOut
  /\ caller' = [caller EXCEPT !.pc = "sleep"]
  /\ UNCHANGED <<fineVars, stageError, lastWrite, cfgVars, cycleVars, mutex_,
                 microsecondsSinceStart, busVars, tableVars, hist>>

\* the wait loop, lines 755-756: unlock and sleep
PdoWaitSleep ==
  /\ caller.pc = "check"
  /\ ~stateChangeSuccessful_
  /\ ~WaitTimedOut
  /\ mutex_' = "none"
  /\ caller' = [caller EXCEPT !.pc = "sleep"]
  /\ UNCHANGED <<fineVars, stageError, lastWrite, cfgVars, cycleVars, microsecondsSinceStart, busVars, tableVars, hist>>

\* the wait loop, line 758: the sleep is over, mutex_ is locked again
PdoWaitWake ==
  /\ caller.pc = "sleep"
  /\ mutex_ = "none"
  /\ mutex_' = "caller"
  /\ caller' = [caller EXCEPT !.pc = "check"]
  /\ UNCHANGED <<fineVars, stageError, lastWrite, cfgVars, cycleVars, microsecondsSinceStart, busVars, tableVars, hist>>

\* setDriveStateViaPdo(driveState, false), lines 702-731, called by a second
\* thread while the first caller sleeps in its wait loop: the shared target,
\* flags and time point are overwritten; the first call's local start time
\* point is not
setDriveStateViaPdoBySecondCaller(driveState) ==
  /\ caller.pc = "sleep"
  /\ mutex_ = "none"
  /\ stateChangeSuccessful_' = FALSE
  /\ conductStateChange_' = TRUE
  /\ targetDriveState_' = driveState
  /\ hasRead_' = FALSE
  /\ microsecondsSinceChange' = 0
  /\ hist' = [hist EXCEPT
                !.completionSignalled = FALSE,
                !.armedAtZero = (numberOfSuccessfulTargetStateReadings_ = 0),
                !.rearmed = (conductStateChange_ /\ targetDriveState_ # driveState),
                !.confirmingEvaluations = 0,
                !.interrupted = FALSE,
                !.scenario = FALSE,
                !.issued = << >>,
                !.decodedSinceEvaluation = FALSE]
  /\ UNCHANGED <<fineVars, stageError, lastWrite, cfgVars, modeOfOperation_, stagedCommand_, reading_, controlword_,
                 numberOfSuccessfulTargetStateReadings_, mutex_, caller, microsecondsSinceStart,
                 busVars, tableVars>>

\* -------------------------------------------------------------- environment

\* steady_clock advances by one tick
Tick ==
  /\ microsecondsSinceChange' = Later(microsecondsSinceChange, MinTimeout + 1)
  /\ microsecondsSinceStart' =
       IF caller.pc = "idle" THEN microsecondsSinceStart
       ELSE Later(microsecondsSinceStart, MaxTimeout + 1)
  /\ hist' = [hist EXCEPT !.microsecondsSinceControlword = Later(@, MinTimeout + 1)]
  /\ UNCHANGED <<fineVars, stageError, lastWrite, cfgVars, modeOfOperation_, stagedCommand_, reading_, controlword_,
                 conductStateChange_, hasRead_, stateChangeSuccessful_,
                 targetDriveState_, numberOfSuccessfulTargetStateReadings_,
                 mutex_, caller, busVars, tableVars>>

\* the drive faults: it leaves its state for Fault on its own
DriveFaults ==
  /\ drive # "Fault"
  /\ drive' = "Fault"
  /\ hist' = [hist EXCEPT !.scenario = FALSE, !.issued = << >>]
  /\ UNCHANGED <<fineVars, stageError, lastWrite, cfgVars, cycleVars, callerVars, rxPdo, tableVars>>

\* -------------------------------------------------------- the service channel

\* the drive after the control-word writes of `path` from hop i on; the write
\* of hop failedWrite fails and does not reach the drive
RECURSIVE ObeyWritten(_, _, _, _)
ObeyWritten(state, path, i, failedWrite) ==
  IF i > Len(path) THEN state
  ELSE ObeyWritten(IF i = failedWrite THEN state ELSE Obey(state, path[i]),
                   path, i + 1, failedWrite)

\* the hops of `path` up to and including hop failedWrite (0: all of them)
WrittenUntilFailure(path, failedWrite) ==
  IF failedWrite = 0 THEN path ELSE SubSeq(path, 1, failedWrite)

\* the call gives up at the first write that fails
setDriveStateViaSdoAborting(driveState, readOk, decoded, failedWrite) ==
  LET currentDriveState == IF readOk THEN drive ELSE decoded
      transitions == SdoTransitions(driveState, currentDriveState)
      issued == WrittenUntilFailure(transitions.path, failedWrite)
  IN /\ failedWrite \in 0..Len(transitions.path)
     /\ readOk => decoded = drive
     /\ drive' = ObeyWritten(drive, issued, 1, failedWrite)
     /\ sdo' = [requested |-> driveState, current |-> currentDriveState,
                readOk |-> readOk, failedWrite |-> failedWrite,
                issued |-> issued,
                reached |-> ObeyWritten(drive, issued, 1, failedWrite),
                success |-> readOk /\ transitions.defined /\ failedWrite = 0,
                error |-> ~transitions.defined]
     /\ reading_' =
          IF transitions.defined THEN reading_
          ELSE [reading_ EXCEPT !.errors = @ \cup {"SdoStateTransitionError"}]
     /\ pdoNext' = NoPdoNextCall
     /\ UNCHANGED <<fineVars, stageError, lastWrite, cfgVars, modeOfOperation_, stagedCommand_, controlword_,
                    conductStateChange_, hasRead_, stateChangeSuccessful_,
                    targetDriveState_, numberOfSuccessfulTargetStateReadings_,
                    microsecondsSinceChange, callerVars, rxPdo, hist>>

\* setDriveStateViaSdo(driveState): one status read (when it fails the status
\* word decodes to `decoded`), then every stateTransitionViaSdo call of the
\* branch; the write of hop failedWrite fails (0: none does)
setDriveStateViaSdo(driveState, readOk, decoded, failedWrite) ==
  LET currentDriveState == IF readOk THEN drive ELSE decoded
      transitions == SdoTransitions(driveState, currentDriveState)
  IN /\ failedWrite \in 0..Len(transitions.path)
     /\ readOk => decoded = drive
     /\ drive' = ObeyWritten(drive, transitions.path, 1, failedWrite)
     /\ sdo' = [requested |-> driveState, current |-> currentDriveState,
                readOk |-> readOk, failedWrite |-> failedWrite,
                issued |-> transitions.path,
                reached |-> ObeyWritten(drive, transitions.path, 1, failedWrite),
                success |-> readOk /\ transitions.defined /\ failedWrite = 0,
                error |-> ~transitions.defined]
     /\ reading_' =
          IF transitions.defined THEN reading_
          ELSE [reading_ EXCEPT !.errors = @ \cup {"SdoStateTransitionError"}]
     /\ pdoNext' = NoPdoNextCall
     /\ UNCHANGED <<fineVars, stageError, lastWrite, cfgVars, modeOfOperation_, stagedCommand_, controlword_,
                    conductStateChange_, hasRead_, stateChangeSuccessful_,
                    targetDriveState_, numberOfSuccessfulTargetStateReadings_,
                    microsecondsSinceChange, callerVars, rxPdo, hist>>

\* the bring-up steps of startup whose result enters `success`
StartupSteps ==
  {"waitForState", "sendSdoRead", "mapPdos", "interpolationTimePeriod",
   "interpolationTimeIndex", "modesOfOperation", "configParam"}

\* nominal currents the device reports, in mA
DeviceNominalCurrents == {3000, 5000}

\* what the local `uint32_t nominalCurrent` may hold when the read did not fill it
UninitializedNominalCurrents == {0, 3000, 7000}

\* static_cast<double>(nominalCurrent) / 1000.0, on whole amperes
NominalCurrentA(nominalCurrent) == nominalCurrent \div 1000

\* the steps startup runs: the nominal current is read only when it is unset
StartupAttempted ==
  IF configuration_.nominalCurrentA = 0 THEN StartupSteps
  ELSE StartupSteps \ {"sendSdoRead"}

\* the nominal current after startup: assigned from the local whenever it was
\* unset at entry, whether or not the read succeeded
NominalCurrentAfterStartup(failed, nominalCurrent) ==
  IF configuration_.nominalCurrentA = 0
  THEN NominalCurrentA(nominalCurrent)
  ELSE configuration_.nominalCurrentA

\* the Reading's errors after startup: ConfigurationError when any step failed
StartupErrors(failed) ==
  IF failed = {} THEN reading_.errors
  ELSE reading_.errors \cup {"ConfigurationError"}

\* startup: the steps in `failed` fail; nominalCurrent is what the local holds
\* after sendSdoRead (the device's value when the read succeeded)
startup(failed, nominalCurrent) ==
  /\ failed \subseteq StartupAttempted
  /\ nominalCurrent \in
       (IF configuration_.nominalCurrentA # 0 THEN {0}
        ELSE IF "sendSdoRead" \in failed THEN UninitializedNominalCurrents
        ELSE DeviceNominalCurrents)
  /\ configuration_' =
       [configuration_ EXCEPT !.nominalCurrentA = NominalCurrentAfterStartup(failed, nominalCurrent)]
  /\ reading_' = [reading_ EXCEPT !.errors = StartupErrors(failed)]
  /\ startupCall' =
       [called |-> TRUE, before |-> configuration_, attempted |-> StartupAttempted,
        failed |-> failed, success |-> failed = {}]
  /\ UNCHANGED <<stagedCommandMutex_, readingMutex_, preShutdownCall, position, threads,
                 stageError, lastWrite, allowModeChange_, modeOfOperation_, stagedCommand_, controlword_,
                 conductStateChange_, hasRead_, stateChangeSuccessful_, targetDriveState_,
                 numberOfSuccessfulTargetStateReadings_, microsecondsSinceChange,
                 callerVars, busVars, tableVars, hist>>

\* the control words of `path` that were written: all but hop failedWrite
RECURSIVE Written(_, _, _)
Written(path, i, failedWrite) ==
  IF i > Len(path) THEN << >>
  ELSE (IF i = failedWrite THEN << >> ELSE <<path[i]>>)
       \o Written(path, i + 1, failedWrite)

\* only the quick stop is requested
preShutdownWithoutDisable(readOk1, decoded1, failedWrite1, readOk2, decoded2, failedWrite2) ==
  LET current1 == IF readOk1 THEN drive ELSE decoded1
      first == SdoTransitions("QuickStopActive", current1)
      drive1 == ObeyWritten(drive, first.path, 1, failedWrite1)
  IN /\ failedWrite1 \in 0..Len(first.path)
     /\ readOk1 => decoded1 = drive
     /\ readOk2 /\ decoded2 = drive1 /\ failedWrite2 = 0
     /\ drive' = drive1
     /\ preShutdownCall' =
          [called |-> TRUE, initial |-> drive,
           issued |-> Written(first.path, 1, failedWrite1),
           ok |-> readOk1 /\ failedWrite1 = 0,
           reached |-> drive1]
     /\ reading_' =
          IF first.defined THEN reading_
          ELSE [reading_ EXCEPT !.errors = @ \cup {"SdoStateTransitionError"}]
     /\ UNCHANGED <<stagedCommandMutex_, readingMutex_, startupCall, position, threads,
                    stageError, lastWrite, cfgVars,
                    modeOfOperation_, stagedCommand_, controlword_, conductStateChange_,
                    hasRead_, stateChangeSuccessful_, targetDriveState_,
                    numberOfSuccessfulTargetStateReadings_, microsecondsSinceChange,
                    callerVars, rxPdo, tableVars, hist>>

\* preShutdown: setDriveStateViaSdo(QuickStopActive), then
\* setDriveStateViaSdo(SwitchOnDisabled); each call reads the status word
\* (when the read fails it decodes to decoded1, decoded2) and writes the control
\* words of its branch (the write of hop failedWrite1, failedWrite2 fails)
preShutdown(readOk1, decoded1, failedWrite1, readOk2, decoded2, failedWrite2) ==
  LET current1 == IF readOk1 THEN drive ELSE decoded1
      first == SdoTransitions("QuickStopActive", current1)
      drive1 == ObeyWritten(drive, first.path, 1, failedWrite1)
      current2 == IF readOk2 THEN drive1 ELSE decoded2
      second == SdoTransitions("SwitchOnDisabled", current2)
      drive2 == ObeyWritten(drive1, second.path, 1, failedWrite2)
  IN /\ failedWrite1 \in 0..Len(first.path)
     /\ failedWrite2 \in 0..Len(second.path)
     /\ readOk1 => decoded1 = drive
     /\ readOk2 => decoded2 = drive1
     /\ drive' = drive2
     /\ preShutdownCall' =
          [called |-> TRUE, initial |-> drive,
           issued |-> Written(first.path, 1, failedWrite1)
                        \o Written(second.path, 1, failedWrite2),
           ok |-> readOk1 /\ readOk2 /\ failedWrite1 = 0 /\ failedWrite2 = 0,
           reached |-> drive2]
     /\ reading_' =
          IF first.defined /\ second.defined THEN reading_
          ELSE [reading_ EXCEPT !.errors = @ \cup {"SdoStateTransitionError"}]
     /\ UNCHANGED <<stagedCommandMutex_, readingMutex_, startupCall, position, threads,
                    stageError, lastWrite, cfgVars,
                    modeOfOperation_, stagedCommand_, controlword_, conductStateChange_,
                    hasRead_, stateChangeSuccessful_, targetDriveState_,
                    numberOfSuccessfulTargetStateReadings_, microsecondsSinceChange,
                    callerVars, rxPdo, tableVars, hist>>

\* getNextStateTransitionControlword(requested, current) called on its own
callGetNextStateTransitionControlword(requestedDriveState, currentDriveState) ==
  LET next == getNextStateTransitionControlword(requestedDriveState, currentDriveState)
  IN /\ pdoNext' = [requested |-> requestedDriveState, current |-> currentDriveState,
                    controlword |-> next.controlword, error |-> next.error]
     /\ reading_' =
          IF next.error
          THEN [reading_ EXCEPT !.errors = @ \cup {"PdoStateTransitionError"}]
          ELSE reading_
     /\ sdo' = NoSdoCall
     /\ UNCHANGED <<fineVars, stageError, lastWrite, cfgVars, modeOfOperation_, stagedCommand_, controlword_,
                    conductStateChange_, hasRead_, stateChangeSuccessful_,
                    targetDriveState_, numberOfSuccessfulTargetStateReadings_,
                    microsecondsSinceChange, callerVars, busVars, hist>>

\* ------------------------------------------------- the calls, step by step

\* the records of the calls made outside cyclic operation
callRecords == <<preShutdownCall, startupCall>>

\* thread s calls stageCommand(command)
stageCommandCall(s, command) ==
  /\ threads.stager[s].pc = "idle"
  /\ threads' = [threads EXCEPT !.stager[s] = [pc |-> "lock", command |-> command]]
  /\ UNCHANGED <<cfgVars, cycleVars, callerVars, busVars, tableVars, hist, lastWrite,
                 stageError, stagedCommandMutex_, readingMutex_, callRecords, position>>

\* staging also waits for the cycle lock
stageCommandLockAfterCycle(s) ==
  /\ threads.stager[s].pc = "lock"
  /\ stagedCommandMutex_ = "none"
  /\ mutex_ = "none"
  /\ stagedCommandMutex_' = s
  /\ threads' = [threads EXCEPT !.stager[s].pc = "assign"]
  /\ UNCHANGED <<cfgVars, cycleVars, callerVars, busVars, tableVars, hist, lastWrite,
                 stageError, readingMutex_, callRecords, position>>

\* stageCommand, line 347: stagedCommandMutex_ is locked
stageCommandLock(s) ==
  /\ threads.stager[s].pc = "lock"
  /\ stagedCommandMutex_ = "none"
  /\ stagedCommandMutex_' = s
  /\ threads' = [threads EXCEPT !.stager[s].pc = "assign"]
  /\ UNCHANGED <<cfgVars, cycleVars, callerVars, busVars, tableVars, hist, lastWrite,
                 stageError, readingMutex_, callRecords, position>>

\* stageCommand, line 348: stagedCommand_ = command
stageCommandAssign(s) ==
  /\ threads.stager[s].pc = "assign"
  /\ stagedCommand_' = threads.stager[s].command
  /\ threads' = [threads EXCEPT !.stager[s].pc = "convert"]
  /\ UNCHANGED <<cfgVars, modeOfOperation_, reading_, controlword_, conductStateChange_,
                 hasRead_, stateChangeSuccessful_, targetDriveState_,
                 numberOfSuccessfulTargetStateReadings_, microsecondsSinceChange,
                 callerVars, busVars, tableVars, hist, lastWrite, stageError,
                 stagedCommandMutex_, readingMutex_, callRecords, position>>

\* stageCommand, lines 349-362: the factors are set, doUnitConversion
stageCommandConvert(s) ==
  /\ threads.stager[s].pc = "convert"
  /\ stagedCommand_' = doUnitConversion(stagedCommand_)
  /\ threads' = [threads EXCEPT !.stager[s].pc = "mode"]
  /\ UNCHANGED <<cfgVars, modeOfOperation_, reading_, controlword_, conductStateChange_,
                 hasRead_, stateChangeSuccessful_, targetDriveState_,
                 numberOfSuccessfulTargetStateReadings_, microsecondsSinceChange,
                 callerVars, busVars, tableVars, hist, lastWrite, stageError,
                 stagedCommandMutex_, readingMutex_, callRecords, position>>

\* stageCommand, lines 364-377: the mode follows, the lock is released
stageCommandReturn(s) ==
  /\ threads.stager[s].pc = "mode"
  /\ modeOfOperation_' = ModeAfterStage(threads.stager[s].command)
  /\ stageError' = StageRejected(threads.stager[s].command)
  /\ stagedCommandMutex_' = "none"
  /\ threads' = [threads EXCEPT !.stager[s] = NoThreads.stager[s]]
  /\ UNCHANGED <<cfgVars, stagedCommand_, reading_, controlword_, conductStateChange_,
                 hasRead_, stateChangeSuccessful_, targetDriveState_,
                 numberOfSuccessfulTargetStateReadings_, microsecondsSinceChange,
                 callerVars, busVars, tableVars, hist, lastWrite,
                 readingMutex_, callRecords, position>>

\* the cycle thread calls updateRead
updateReadCall ==
  /\ threads.cycle.pc = "idle"
  /\ threads' = [threads EXCEPT !.cycle.pc = "updateRead"]
  /\ UNCHANGED <<cfgVars, cycleVars, callerVars, busVars, tableVars, hist, lastWrite,
                 stageError, stagedCommandMutex_, readingMutex_, callRecords, position>>

\* updateRead, lines 257-272: mutex_ is locked, the frame is read from the bus
\* and its status word is set in the Reading
updateReadStatusword ==
  /\ threads.cycle.pc = "updateRead"
  /\ mutex_ = "none"
  /\ mutex_' = "cycle"
  /\ reading_' =
       IF configuration_.txPdoTypeEnum \in SupportedTxPdoTypes
       THEN [reading_ EXCEPT !.driveState = drive]
       ELSE [reading_ EXCEPT !.errors = @ \cup {"TxPdoTypeError"}]
  /\ threads' = [threads EXCEPT !.cycle.pc = "statusword",
                                 !.cycle.txPdo = readTxPdo,
                                 !.cycle.before = reading_]
  /\ hist' = [hist EXCEPT !.decodedSinceEvaluation =
                 @ \/ configuration_.txPdoTypeEnum \in SupportedTxPdoTypes]
  /\ UNCHANGED <<cfgVars, modeOfOperation_, stagedCommand_, controlword_,
                 conductStateChange_, hasRead_, stateChangeSuccessful_, targetDriveState_,
                 numberOfSuccessfulTargetStateReadings_, microsecondsSinceChange,
                 caller, microsecondsSinceStart, busVars, tableVars, lastWrite,
                 stageError, stagedCommandMutex_, readingMutex_, callRecords, position>>

\* updateRead, lines 273-343: the other fields of the frame are set, hasRead_
\* is set, mutex_ is released
updateReadReturn ==
  /\ threads.cycle.pc = "statusword"
  /\ reading_' =
       IF configuration_.txPdoTypeEnum \in SupportedTxPdoTypes
       THEN Decoded(reading_, threads.cycle.txPdo)
       ELSE reading_
  /\ hasRead_' = TRUE
  /\ mutex_' = "none"
  /\ threads' = [threads EXCEPT !.cycle = NoThreads.cycle]
  /\ UNCHANGED <<cfgVars, modeOfOperation_, stagedCommand_, controlword_,
                 conductStateChange_, stateChangeSuccessful_, targetDriveState_,
                 numberOfSuccessfulTargetStateReadings_, microsecondsSinceChange,
                 caller, microsecondsSinceStart, busVars, tableVars, hist, lastWrite,
                 stageError, stagedCommandMutex_, readingMutex_, callRecords, position>>

\* the cycle thread calls updateWrite; the steps below are those of the
\* RxPdoCSP branch
updateWriteCall ==
  /\ threads.cycle.pc = "idle"
  /\ configuration_.rxPdoTypeEnum = "RxPdoCSP"
  /\ threads' = [threads EXCEPT !.cycle.pc = "updateWrite"]
  /\ UNCHANGED <<cfgVars, cycleVars, callerVars, busVars, tableVars, hist, lastWrite,
                 stageError, stagedCommandMutex_, readingMutex_, callRecords, position>>

\* updateWrite, lines 145-165: mutex_ is locked, the mode is set, and
\* engagePdoStateMachine runs when a change is pending and a frame was read;
\* its addErrorToReading takes readingMutex_
updateWriteEngage ==
  /\ threads.cycle.pc = "updateWrite"
  /\ mutex_ = "none"
  /\ modeOfOperation_ # "NA"
  /\ LET next == getNextStateTransitionControlword(targetDriveState_, reading_.driveState)
         pdoError == IF Replaces /\ next.error THEN {"PdoStateTransitionError"} ELSE {}
     IN /\ pdoError # {} => readingMutex_ = "none"
        /\ controlword_' = IF Replaces THEN next.controlword ELSE controlword_
        /\ microsecondsSinceChange' = IF Replaces THEN 0 ELSE microsecondsSinceChange
        /\ numberOfSuccessfulTargetStateReadings_' =
             IF Completes THEN 0
             ELSE IF Engaged /\ TargetReached
                  THEN numberOfSuccessfulTargetStateReadings_ + 1
                  ELSE numberOfSuccessfulTargetStateReadings_
        /\ conductStateChange_' = IF Completes THEN FALSE ELSE conductStateChange_
        /\ stateChangeSuccessful_' = IF Completes THEN TRUE ELSE stateChangeSuccessful_
        /\ hasRead_' = IF Engaged /\ ~Completes THEN FALSE ELSE hasRead_
        /\ hist' = IF Engaged THEN EngagedHistory(next.controlword) ELSE hist
        /\ reading_' = [reading_ EXCEPT !.errors = @ \cup pdoError]
  /\ mutex_' = "cycle"
  /\ threads' = [threads EXCEPT !.cycle.pc = "engaged"]
  /\ UNCHANGED <<cfgVars, modeOfOperation_, stagedCommand_, targetDriveState_,
                 caller, microsecondsSinceStart, busVars, tableVars, lastWrite,
                 stageError, stagedCommandMutex_, readingMutex_, callRecords, position>>

\* updateWrite, line 182: rxPdo.targetPosition_ = stagedCommand_.getTargetPositionRaw()
updateWriteTargetPosition ==
  /\ threads.cycle.pc = "engaged"
  /\ threads' = [threads EXCEPT !.cycle.pc = "targetPosition",
                                 !.cycle.targetPosition_ = stagedCommand_.targetPositionRaw]
  /\ UNCHANGED <<cfgVars, cycleVars, callerVars, busVars, tableVars, hist, lastWrite,
                 stageError, stagedCommandMutex_, readingMutex_, callRecords, position>>

\* updateWrite, line 183: rxPdo.positionOffset_ = stagedCommand_.getPositionOffsetRaw()
updateWritePositionOffset ==
  /\ threads.cycle.pc = "targetPosition"
  /\ threads' = [threads EXCEPT !.cycle.pc = "positionOffset",
                                 !.cycle.positionOffset_ = stagedCommand_.positionOffsetRaw]
  /\ UNCHANGED <<cfgVars, cycleVars, callerVars, busVars, tableVars, hist, lastWrite,
                 stageError, stagedCommandMutex_, readingMutex_, callRecords, position>>

\* updateWrite, lines 186-253: the control word and the staged mode complete
\* the frame, the frame is written to the bus, mutex_ is released
updateWriteReturn ==
  /\ threads.cycle.pc = "positionOffset"
  /\ rxPdo' = [variant |-> configuration_.rxPdoTypeEnum, controlWord_ |-> controlword_,
               modeOfOperation_ |-> stagedCommand_.modeOfOperation,
               targetPosition_ |-> threads.cycle.targetPosition_,
               positionOffset_ |-> threads.cycle.positionOffset_]
  /\ drive' = Obey(drive, controlword_)
  /\ lastWrite' = [frames |-> 1, error |-> "none"]
  /\ mutex_' = "none"
  /\ threads' = [threads EXCEPT !.cycle = NoThreads.cycle]
  /\ UNCHANGED <<cfgVars, cycleVars, caller, microsecondsSinceStart, tableVars, hist,
                 stageError, stagedCommandMutex_, readingMutex_, callRecords, position>>

\* a thread calls getReading
getReadingCall ==
  /\ threads.reader.pc = "idle"
  /\ threads' = [threads EXCEPT !.reader = [NoThreads.reader EXCEPT !.pc = "lock"]]
  /\ UNCHANGED <<cfgVars, cycleVars, callerVars, busVars, tableVars, hist, lastWrite,
                 stageError, stagedCommandMutex_, readingMutex_, callRecords, position>>

\* getReading, line 381: readingMutex_ is locked
getReadingLock ==
  /\ threads.reader.pc = "lock"
  /\ readingMutex_ = "none"
  /\ readingMutex_' = "reader"
  /\ threads' = [threads EXCEPT !.reader.pc = "copy"]
  /\ UNCHANGED <<cfgVars, cycleVars, callerVars, busVars, tableVars, hist, lastWrite,
                 stageError, stagedCommandMutex_, callRecords, position>>

\* getReading, line 382: the copy of reading_ is returned, the lock released;
\* with it are kept the Reading before and after the updateRead call that was
\* under way, if one was
getReadingReturn ==
  /\ threads.reader.pc = "copy"
  /\ readingMutex_' = "none"
  /\ threads' =
       [threads EXCEPT !.reader =
          [pc |-> "idle", returned |-> TRUE,
           during |-> threads.cycle.pc = "statusword",
           reading |-> reading_,
           before |-> IF threads.cycle.pc = "statusword" THEN threads.cycle.before
                      ELSE reading_,
           after |-> IF threads.cycle.pc = "statusword"
                     THEN Decoded(threads.cycle.before, threads.cycle.txPdo)
                     ELSE reading_]]
  /\ UNCHANGED <<cfgVars, cycleVars, callerVars, busVars, tableVars, hist, lastWrite,
                 stageError, stagedCommandMutex_, callRecords, position>>

\* the drive moves: the position it reports changes
DriveMoves ==
  /\ position' = 1 - position
  /\ UNCHANGED <<cfgVars, cycleVars, callerVars, busVars, tableVars, hist, lastWrite,
                 stageError, stagedCommandMutex_, readingMutex_, callRecords, threads>>

\* ------------------------------------------------------- the specifications

\* cyclic operation with requests that do not wait
Next ==
  \/ updateRead
  \/ updateWriteNoMode
  \/ updateWrite
  \/ \E command \in StagedCommands : stageCommand(command)
  \/ \E driveState \in PdoTargets : setDriveStateViaPdo(driveState, FALSE)
  \/ Tick
  \/ DriveFaults

Spec == Init /\ [][Next]_vars

\* cyclic operation with a caller that may wait for the state
WaitNext ==
  \/ updateRead
  \/ updateWriteNoMode
  \/ updateWrite
  \/ \E command \in StagedCommands : stageCommand(command)
  \/ \E driveState \in WaitTargets, waitForState \in BOOLEAN :
       setDriveStateViaPdo(driveState, waitForState)
  \/ PdoWaitSuccess
  \/ PdoWaitTimeout
  \/ PdoWaitSleep
  \/ PdoWaitWake
  \/ Tick
  \/ DriveFaults

WaitSpec == Init /\ [][WaitNext]_vars

\* the clock advances and the waiting caller is scheduled
LiveSpec ==
  /\ WaitSpec
  /\ WF_vars(Tick)
  /\ WF_vars(PdoWaitSuccess)
  /\ WF_vars(PdoWaitTimeout)
  /\ WF_vars(PdoWaitSleep)
  /\ WF_vars(PdoWaitWake)

\* setDriveStateViaPdo(driveState, false) called while no request is pending
setDriveStateViaPdoAlone(driveState) ==
  /\ ~conductStateChange_
  /\ setDriveStateViaPdo(driveState, FALSE)

\* the cycle thread keeps reading and writing frames with a resolved mode, the
\* drive performs what it is commanded and does not fault, the clock advances
\* and one request at a time is armed for a commandable state
CompletionNext ==
  \/ updateRead
  \/ updateWrite
  \/ \E driveState \in CommandableStates : setDriveStateViaPdoAlone(driveState)
  \/ Tick

CompletionSpec ==
  /\ Init /\ [][CompletionNext]_vars
  /\ WF_vars(updateRead)
  /\ WF_vars(updateWrite)
  /\ WF_vars(Tick)

\* two threads call setDriveStateViaPdo: one waits, the other arms a request
\* while the first sleeps
ConcurrentNext ==
  \/ WaitNext
  \/ \E driveState \in WaitTargets : setDriveStateViaPdoBySecondCaller(driveState)

ConcurrentSpec == Init /\ [][ConcurrentNext]_vars

\* the configurations of the frame claims: standard frames with and without
\* multi-mode use, other frames with multi-mode use, no mode configured, and
\* frame variants the switches do not name
FrameConfiguration(rxPdoTypeEnum, txPdoTypeEnum, useMultipleModeOfOperations, modeOfOperationEnum) ==
  [rxPdoTypeEnum |-> rxPdoTypeEnum, txPdoTypeEnum |-> txPdoTypeEnum,
   useMultipleModeOfOperations |-> useMultipleModeOfOperations,
   modeOfOperationEnum |-> modeOfOperationEnum,
   minNumberOfSuccessfulTargetStateReadings |-> 1,
   driveStateChangeMinTimeout |-> MinTimeout,
   driveStateChangeMaxTimeout |-> MaxTimeout,
   positionEncoderResolution |-> 4,
   nominalCurrentA |-> 2]

FrameConfigurations ==
  {FrameConfiguration("RxPdoStandard", "TxPdoStandard", TRUE, "CyclicSynchronousPositionMode"),
   FrameConfiguration("RxPdoStandard", "TxPdoStandard", FALSE, "CyclicSynchronousPositionMode"),
   FrameConfiguration("RxPdoStandard", "TxPdoStandard", FALSE, "NA"),
   FrameConfiguration("RxPdoStandard", "TxPdoCSP", TRUE, "CyclicSynchronousPositionMode"),
   FrameConfiguration("RxPdoCSP", "TxPdoCSP", TRUE, "CyclicSynchronousPositionMode"),
   FrameConfiguration("NA", "NA", FALSE, "CyclicSynchronousPositionMode")}

\* the commands staged in the frame claims: every mode
FrameCommands == {Command(mode, 1, 1) : mode \in ModesOfOperation}

\* cyclic operation under every kind of configuration
FrameInit ==
  /\ \E configuration \in FrameConfigurations : loadConfiguration(configuration)
  /\ drive \in {"SwitchOnDisabled", "OperationEnabled"}

FrameNext ==
  \/ updateRead
  \/ updateWriteNoMode
  \/ updateWrite
  \/ \E command \in FrameCommands : stageCommand(command)
  \/ \E driveState \in WaitTargets : setDriveStateViaPdo(driveState, FALSE)
  \/ Tick
  \/ DriveFaults

FrameSpec == FrameInit /\ [][FrameNext]_vars

\* the service channel and the transition tables on drawn inputs
TransitionInit ==
  /\ \E configuration \in Configurations : loadConfiguration(configuration)
  /\ drive \in TableStates

TransitionNext ==
  \/ \E driveState \in TableStates, readOk \in BOOLEAN, decoded \in TableStates,
        failedWrite \in 0..LongestSdoPath :
       setDriveStateViaSdo(driveState, readOk, decoded, failedWrite)
  \/ \E requestedDriveState \in TableStates, currentDriveState \in TableStates :
       callGetNextStateTransitionControlword(requestedDriveState, currentDriveState)
  \/ DriveFaults

TransitionSpec == TransitionInit /\ [][TransitionNext]_vars

\* the threads interleaved step by step: two staging threads, the cycle thread,
\* a thread reading the Reading and a caller requesting drive states
ThreadConfigurations ==
  {FrameConfiguration("RxPdoCSP", "TxPdoCSP", TRUE, "CyclicSynchronousPositionMode")}

ThreadInit ==
  /\ \E configuration \in ThreadConfigurations : loadConfiguration(configuration)
  /\ drive = "SwitchOnDisabled"

\* the commands staged against the cycle thread, and the one staged while
\* every thread runs
StageCommands ==
  {Command("CyclicSynchronousPositionMode", 1, 1),
   Command("CyclicSynchronousPositionMode", 2, 2)}

ThreadCommands == {Command("CyclicSynchronousPositionMode", 0, 0)}

StagerNext(s, commands) ==
  \/ \E command \in commands : stageCommandCall(s, command)
  \/ stageCommandLock(s)
  \/ stageCommandAssign(s)
  \/ stageCommandConvert(s)
  \/ stageCommandReturn(s)

CycleReadNext ==
  \/ updateReadCall
  \/ updateReadStatusword
  \/ updateReadReturn

CycleWriteNext ==
  \/ updateWriteCall
  \/ updateWriteEngage
  \/ updateWriteTargetPosition
  \/ updateWritePositionOffset
  \/ updateWriteReturn

ReaderNext ==
  \/ getReadingCall
  \/ getReadingLock
  \/ getReadingReturn

\* staging threads against the cycle thread writing frames
StageNext ==
  \/ \E s \in Stagers : StagerNext(s, StageCommands)
  \/ CycleWriteNext

StageSpec == ThreadInit /\ [][StageNext]_vars

\* a reading thread against the cycle thread reading frames of a moving drive
ReadNext ==
  \/ CycleReadNext
  \/ ReaderNext
  \/ DriveMoves
  \/ DriveFaults

ReadSpec == ThreadInit /\ [][ReadNext]_vars

\* the state a waiting caller requests while the other threads run
ThreadTargets == {"SwitchOnDisabled"}

ThreadNext ==
  \/ \E s \in Stagers : StagerNext(s, ThreadCommands)
  \/ CycleReadNext
  \/ CycleWriteNext
  \/ ReaderNext
  \/ \E driveState \in ThreadTargets, waitForState \in BOOLEAN :
       setDriveStateViaPdo(driveState, waitForState)
  \/ PdoWaitSuccess
  \/ PdoWaitTimeout
  \/ PdoWaitSleep
  \/ PdoWaitWake
  \/ Tick

ThreadSpec == ThreadInit /\ [][ThreadNext]_vars

\* every thread inside a call keeps running, and a thread waiting for a lock
\* that is free again and again gets it
ThreadLiveSpec ==
  /\ ThreadSpec
  /\ \A s \in Stagers :
       /\ SF_vars(stageCommandLock(s))
       /\ WF_vars(stageCommandAssign(s) \/ stageCommandConvert(s) \/ stageCommandReturn(s))
  /\ SF_vars(updateReadStatusword)
  /\ SF_vars(updateWriteEngage)
  /\ WF_vars(updateReadReturn \/ updateWriteTargetPosition \/ updateWritePositionOffset
               \/ updateWriteReturn)
  /\ WF_vars(getReadingLock \/ getReadingReturn)
  /\ SF_vars(PdoWaitWake)
  /\ WF_vars(PdoWaitSuccess \/ PdoWaitTimeout \/ PdoWaitSleep)

\* bringing the drive down over the service channel from any of the six states
ShutdownConfigurations ==
  {FrameConfiguration("RxPdoStandard", "TxPdoStandard", TRUE, "CyclicSynchronousPositionMode"),
   FrameConfiguration("RxPdoCSP", "TxPdoCSP", TRUE, "CyclicSynchronousPositionMode")}

ShutdownInit ==
  /\ \E configuration \in ShutdownConfigurations : loadConfiguration(configuration)
  /\ drive \in SixStates

ShutdownNext ==
  \/ \E readOk1 \in BOOLEAN, readOk2 \in BOOLEAN :
     \E decoded1 \in (IF readOk1 THEN {drive} ELSE TableStates),
        decoded2 \in (IF readOk2 THEN SixStates ELSE TableStates),
        failedWrite1 \in 0..LongestSdoPath, failedWrite2 \in 0..LongestSdoPath :
       preShutdown(readOk1, decoded1, failedWrite1, readOk2, decoded2, failedWrite2)
  \/ DriveFaults

ShutdownSpec == ShutdownInit /\ [][ShutdownNext]_vars

\* bring-up: startup on a fresh object, with the nominal current set or unset
StartupConfigurations ==
  ShutdownConfigurations
    \cup {[configuration EXCEPT !.nominalCurrentA = 0] : configuration \in ShutdownConfigurations}

StartupInit ==
  /\ \E configuration \in StartupConfigurations : loadConfiguration(configuration)
  /\ drive = "SwitchOnDisabled"

StartupNext ==
  \/ \E failed \in SUBSET StartupSteps,
        nominalCurrent \in DeviceNominalCurrents \cup UninitializedNominalCurrents :
       startup(failed, nominalCurrent)

StartupSpec == StartupInit /\ [][StartupNext]_vars

\* ---------------------------------------------------------------- the claims

MinReadings == configuration_.minNumberOfSuccessfulTargetStateReadings

\* the transition ids of a list of issued control words
RECURSIVE TransitionsOf(_)
TransitionsOf(issued) ==
  IF issued = << >> THEN << >>
  ELSE <<Head(issued).transition>> \o TransitionsOf(Tail(issued))

IsPrefix(s, t) == Len(s) <= Len(t) /\ \A i \in 1..Len(s) : s[i] = t[i]

\* a step in which engagePdoStateMachine replaces controlword_
ControlwordReplaced ==
  \/ controlword_' # controlword_
  \/ hist'.microsecondsSinceControlword < hist.microsecondsSinceControlword

\* C1: a waiting setDriveStateViaPdo call returns true only if the cyclic path
\* signalled completion after the call armed the request, returns false only
\* when more than driveStateChangeMaxTimeout has elapsed since arming and no
\* completion is observed, and always returns once the clock advances; a call
\* with waitForState = false never enters the wait loop and returns true.
C1_WaitReturns ==
  /\ [](caller.waitForState /\ caller.returned = "true" => hist.completionSignalled)
  /\ [][caller.returned # "false" /\ caller'.returned = "false"
        => /\ caller.waitForState
           /\ ~stateChangeSuccessful_
           /\ microsecondsSinceStart > configuration_.driveStateChangeMaxTimeout]_vars
  /\ [](~caller.waitForState => caller.pc = "idle" /\ caller.returned # "false")
  /\ (caller.pc # "idle" ~> caller.pc = "idle")

\* C1 witness: a waiting call has returned true
C1_Witness == caller.waitForState /\ caller.pc = "idle" /\ caller.returned = "true"

\* C2: a request armed while the confirmation counter is 0 is marked complete
\* (flag set, pending flag cleared, counter back to 0) exactly when the number
\* of evaluations that found the decoded state equal to the target reaches
\* minNumberOfSuccessfulTargetStateReadings, and is pending before that.
C2_CompleteAtMinimum ==
  hist.armedAtZero =>
    IF stateChangeSuccessful_
    THEN /\ hist.confirmingEvaluations = MinReadings
         /\ ~conductStateChange_
         /\ numberOfSuccessfulTargetStateReadings_ = 0
    ELSE /\ hist.confirmingEvaluations < MinReadings
         /\ numberOfSuccessfulTargetStateReadings_ = hist.confirmingEvaluations

\* C2 witness: a request armed at counter 0 completed after two confirming reads
C2_Witness ==
  /\ hist.armedAtZero
  /\ stateChangeSuccessful_
  /\ MinReadings = MaxReadings
  /\ hist.confirmingEvaluations = MaxReadings

\* C3 as claimed: after a request with a different target is issued while an
\* earlier one is pending, the confirmation counter is 0, and the new request
\* completes only after minNumberOfSuccessfulTargetStateReadings evaluations
\* confirmed the new target.
C3_RearmResetsCounter ==
  hist.rearmed =>
    /\ hist.armedAtZero
    /\ stateChangeSuccessful_ => hist.confirmingEvaluations >= MinReadings

\* C4 as claimed: completion takes minNumberOfSuccessfulTargetStateReadings
\* consecutive confirming reads: no evaluation that found another state lies
\* between the confirming evaluations of a completed request.
C4_ConsecutiveReadings ==
  hist.armedAtZero /\ stateChangeSuccessful_ => ~hist.interrupted

\* C5 as claimed: controlword_ is replaced only while a change is pending, the
\* decoded state differs from the target and more than
\* driveStateChangeMinTimeout has elapsed since arming and since the last
\* replacement; the dwell timer restarts and the new word is one transition.
C5_ReplacementIsOneTransition ==
  [][ControlwordReplaced
     => /\ conductStateChange_
        /\ reading_.driveState # targetDriveState_
        /\ microsecondsSinceChange > configuration_.driveStateChangeMinTimeout
        /\ hist.microsecondsSinceControlword > configuration_.driveStateChangeMinTimeout
        /\ microsecondsSinceChange' = 0
        /\ controlword_' \in StateTransitions]_vars

\* C5 amended: as C5, the new word being one transition when the target is one
\* of the five commandable states; for the target Fault it is the control word
\* with no transition set and PdoStateTransitionError is added to the Reading.
C5_DwellBetweenReplacements ==
  [][ControlwordReplaced
     => /\ conductStateChange_
        /\ reading_.driveState # targetDriveState_
        /\ microsecondsSinceChange > configuration_.driveStateChangeMinTimeout
        /\ hist.microsecondsSinceControlword > configuration_.driveStateChangeMinTimeout
        /\ microsecondsSinceChange' = 0
        /\ targetDriveState_ \in CommandableStates => controlword_' \in StateTransitions
        /\ targetDriveState_ = "Fault"
             => /\ controlword_' = 0
                /\ "PdoStateTransitionError" \in reading_'.errors]_vars

\* C5 witness: the second replacement of a request has just been made
C5_Witness ==
  /\ conductStateChange_
  /\ Len(hist.issued) = 2
  /\ hist.microsecondsSinceControlword = 0

\* C6: the step in which a waiting call gives up on timeout leaves the pending
\* flag, the target, the confirmation counter and the completion flag as the
\* last cycle left them.
C6_TimeoutKeepsRequest ==
  [][caller.returned # "false" /\ caller'.returned = "false"
     => UNCHANGED <<conductStateChange_, targetDriveState_,
                    numberOfSuccessfulTargetStateReadings_, stateChangeSuccessful_,
                    controlword_, hasRead_>>]_vars

\* C6 witness: the caller got failure, the request is still pending and the
\* cyclic path has just replaced the control word for it
C6_Witness ==
  /\ caller.returned = "false"
  /\ conductStateChange_
  /\ hist.microsecondsSinceControlword = 0
  /\ controlword_ \in StateTransitions

\* C8: standard frames, multi-mode use, the drive resting in SwitchOnDisabled
\* (the control word in force does not move it) and obeying each commanded
\* transition, and a request for OperationEnabled:
\* the control words issued are a prefix of 2, 3, 4, at most one per updateWrite,
\* each later one more than the minimum dwell after the one before, and they
\* are exactly 2, 3, 4 with OperationEnabled decoded when completion is flagged.
C8_EnableInThreeTransitions ==
  /\ [](/\ hist.scenario
        /\ allowModeChange_
        /\ configuration_.rxPdoTypeEnum = "RxPdoStandard"
        => /\ targetDriveState_ = "OperationEnabled"
           /\ IsPrefix(TransitionsOf(hist.issued), <<2, 3, 4>>)
           /\ \A i \in 2..Len(hist.issued) :
                hist.issued[i].dwell > configuration_.driveStateChangeMinTimeout
           /\ stateChangeSuccessful_
                => /\ TransitionsOf(hist.issued) = <<2, 3, 4>>
                   /\ reading_.driveState = "OperationEnabled"
                   /\ drive = "OperationEnabled")
  /\ [][Len(hist'.issued) <= Len(hist.issued) + 1]_vars

\* C8 witness: the scenario has completed
C8_Witness ==
  /\ hist.scenario
  /\ allowModeChange_
  /\ stateChangeSuccessful_
  /\ Len(hist.issued) = 3

\* the pair of states of the last setDriveStateViaSdo call
SdoPairIn(requestedStates, currentStates) ==
  sdo.requested \in requestedStates /\ sdo.current \in currentStates

\* the pair of states of the last getNextStateTransitionControlword call
PdoPairIn(requestedStates, currentStates) ==
  pdoNext.requested \in requestedStates /\ pdoNext.current \in currentStates

\* the list setDriveStateViaSdo issued leads hop by hop, over CiA 402 edges,
\* from the current to the requested state and is not empty
SdoPathCorrect ==
  /\ sdo.issued # << >>
  /\ ~sdo.error
  /\ LegalPath(sdo.current, sdo.issued)
  /\ ObeyAll(sdo.current, sdo.issued) = sdo.requested

\* the word getNextStateTransitionControlword returned is the first hop of the
\* list setDriveStateViaSdo issues for the same pair
PdoNextIsFirstHop ==
  LET transitions == SdoTransitions(pdoNext.requested, pdoNext.current)
  IN /\ ~pdoNext.error
     /\ transitions.path # << >>
     /\ pdoNext.controlword = Head(transitions.path)

\* C7 as claimed: for every pair of the six drive states with current
\* different from requested, setDriveStateViaSdo issues a non-empty list of
\* legal hops ending in the requested state, and
\* getNextStateTransitionControlword yields its first hop.
C7_EveryPairHasPath ==
  /\ SdoPairIn(SixStates, SixStates) /\ sdo.requested # sdo.current => SdoPathCorrect
  /\ PdoPairIn(SixStates, SixStates) /\ pdoNext.requested # pdoNext.current
       => PdoNextIsFirstHop

\* C7 amended: the same for every pair whose requested state is one of the five
\* commandable states (all but Fault); when Fault is requested no transition is
\* issued: setDriveStateViaSdo writes nothing, adds SdoStateTransitionError and
\* fails, getNextStateTransitionControlword returns the word with no transition
\* set and adds PdoStateTransitionError.
C7_CommandablePairsHavePath ==
  /\ SdoPairIn(CommandableStates, SixStates) /\ sdo.requested # sdo.current
       => /\ SdoPathCorrect
          /\ sdo.readOk /\ sdo.failedWrite = 0 => sdo.success /\ sdo.reached = sdo.requested
  /\ PdoPairIn(CommandableStates, SixStates) /\ pdoNext.requested # pdoNext.current
       => PdoNextIsFirstHop
  /\ SdoPairIn({"Fault"}, SixStates)
       => /\ sdo.issued = << >>
          /\ sdo.error
          /\ ~sdo.success
          /\ "SdoStateTransitionError" \in reading_.errors
  /\ PdoPairIn({"Fault"}, SixStates)
       => /\ pdoNext.controlword = 0
          /\ pdoNext.error
          /\ "PdoStateTransitionError" \in reading_.errors

\* C7 witness: the five hops from Fault to QuickStopActive were written and
\* the drive followed them
C7_Witness ==
  /\ sdo.requested = "QuickStopActive"
  /\ sdo.current = "Fault"
  /\ Len(sdo.issued) = LongestSdoPath
  /\ sdo.success
  /\ sdo.reached = "QuickStopActive"

\* C9 as claimed: for every self-pair of the six drive states,
\* getNextStateTransitionControlword returns the word with no transition set
\* and adds PdoStateTransitionError, and setDriveStateViaSdo writes no control
\* word, reports no error and succeeds when its status read does.
C9_SelfPairsAlreadyReached ==
  /\ PdoPairIn(SixStates, SixStates) /\ pdoNext.requested = pdoNext.current
       => /\ pdoNext.controlword = 0
          /\ pdoNext.error
          /\ "PdoStateTransitionError" \in reading_.errors
  /\ SdoPairIn(SixStates, SixStates) /\ sdo.requested = sdo.current
       => /\ sdo.issued = << >>
          /\ ~sdo.error
          /\ sdo.success = sdo.readOk

\* C9 amended: the same for the self-pairs of the five commandable states; for
\* the self-pair of Fault getNextStateTransitionControlword behaves alike, and
\* setDriveStateViaSdo writes no control word but adds SdoStateTransitionError
\* and returns failure.
C9_CommandableSelfPairs ==
  /\ PdoPairIn(SixStates, SixStates) /\ pdoNext.requested = pdoNext.current
       => /\ pdoNext.controlword = 0
          /\ pdoNext.error
          /\ "PdoStateTransitionError" \in reading_.errors
  /\ SdoPairIn(CommandableStates, SixStates) /\ sdo.requested = sdo.current
       => /\ sdo.issued = << >>
          /\ ~sdo.error
          /\ sdo.success = sdo.readOk
          /\ sdo.readOk => sdo.reached = sdo.requested
  /\ SdoPairIn({"Fault"}, {"Fault"})
       => /\ sdo.issued = << >>
          /\ sdo.error
          /\ ~sdo.success
          /\ "SdoStateTransitionError" \in reading_.errors

\* C9 witness: setDriveStateViaSdo(SwitchOnDisabled) succeeded on a drive
\* already there, after a self-pair was reported on the process-data path
C9_Witness ==
  /\ sdo.requested = "SwitchOnDisabled"
  /\ sdo.current = "SwitchOnDisabled"
  /\ sdo.readOk
  /\ sdo.success
  /\ reading_.errors = {"PdoStateTransitionError"}

\* C10 as claimed: every pair of different states maps to a list of 1 or 2
\* transitions, every self-pair to the empty list, and setDriveStateViaSdo
\* never issues more than 2 control-word writes.
C10_AtMostTwoTransitions ==
  /\ SdoPairIn(SixStates, SixStates) /\ sdo.requested # sdo.current
       => Len(sdo.issued) \in 1..2
  /\ SdoPairIn(SixStates, SixStates) /\ sdo.requested = sdo.current
       => sdo.issued = << >>
  /\ Len(sdo.issued) <= 2

\* C10 amended: every pair of different states whose requested state is one of
\* the five commandable states maps to one list of 1 to 5 transitions, the one
\* the table gives; every self-pair maps to the empty list; and
\* setDriveStateViaSdo never issues more than 5 control-word writes.
C10_AtMostFiveTransitions ==
  /\ SdoPairIn(CommandableStates, SixStates) /\ sdo.requested # sdo.current
       => Len(sdo.issued) \in 1..LongestSdoPath
  /\ SdoPairIn(SixStates, SixStates) /\ sdo.requested = sdo.current
       => sdo.issued = << >>
  /\ Len(sdo.issued) <= LongestSdoPath
  /\ sdo.issued = SdoTransitions(sdo.requested, sdo.current).path

\* C10 witness: three writes took the drive from SwitchOnDisabled to
\* OperationEnabled
C10_Witness ==
  /\ sdo.requested = "OperationEnabled"
  /\ sdo.current = "SwitchOnDisabled"
  /\ Len(sdo.issued) = 3
  /\ sdo.failedWrite = 0
  /\ sdo.reached = "OperationEnabled"

\* multi-mode use as the configuration states it
ModeChangeConfigured ==
  /\ configuration_.useMultipleModeOfOperations
  /\ configuration_.rxPdoTypeEnum = "RxPdoStandard"
  /\ configuration_.txPdoTypeEnum = "TxPdoStandard"

\* a stageCommand(command) step that asks for a mode the configuration refuses
RefusedStage(command) ==
  /\ stageCommand(command)
  /\ ~allowModeChange_
  /\ command.modeOfOperation # "NA"
  /\ command.modeOfOperation # modeOfOperation_

\* C11 as claimed: when mode switching is not allowed, stageCommand with a
\* mode that is not NA and differs from the active mode leaves modeOfOperation_
\* unchanged and records an error in the Reading's error set.
C11_RefusedModeInReading ==
  [][\A command \in FrameCommands :
       RefusedStage(command)
         => /\ modeOfOperation_' = modeOfOperation_
            /\ reading_'.errors # {}]_vars

\* C11 amended: in that case stageCommand leaves modeOfOperation_ unchanged and
\* reports the refusal on the error log only: the Reading and its error set are
\* unchanged, and the staged command is replaced all the same.
C11_RefusedModeLogged ==
  [][\A command \in FrameCommands :
       /\ RefusedStage(command)
            => /\ modeOfOperation_' = modeOfOperation_
               /\ stageError'
               /\ reading_' = reading_
               /\ stagedCommand_'.modeOfOperation = command.modeOfOperation
       /\ stageCommand(command) /\ stageError' => RefusedStage(command)]_vars

\* C11 witness: a velocity-mode command was refused under a position-mode
\* configuration without multi-mode use and the Reading holds no error
C11_Witness ==
  /\ stageError
  /\ ~configuration_.useMultipleModeOfOperations
  /\ stagedCommand_.modeOfOperation = "CyclicSynchronousVelocityMode"
  /\ modeOfOperation_ = "CyclicSynchronousPositionMode"
  /\ reading_.errors = {}

\* C12: the active mode can change only when both frame variants are the
\* standard one and multi-mode use is enabled; then every stageCommand sets it
\* to the mode of the command staged; in every other configuration it stays
\* the configured mode.
C12_ModeChangesOnlyWhenAllowed ==
  /\ [](allowModeChange_ = ModeChangeConfigured)
  /\ [](~ModeChangeConfigured => modeOfOperation_ = configuration_.modeOfOperationEnum)
  /\ [][modeOfOperation_' # modeOfOperation_ => ModeChangeConfigured]_vars
  /\ [][\A command \in FrameCommands :
          stageCommand(command) /\ ModeChangeConfigured
            => modeOfOperation_' = command.modeOfOperation]_vars

\* C12 witness: multi-mode use is enabled but the frames are not the standard
\* ones; a velocity-mode command is staged and the active mode is the
\* configured position mode
C12_Witness ==
  /\ configuration_.useMultipleModeOfOperations
  /\ configuration_.rxPdoTypeEnum = "RxPdoCSP"
  /\ stagedCommand_.modeOfOperation = "CyclicSynchronousVelocityMode"
  /\ stagedCommand_.targetPositionRaw # 0
  /\ modeOfOperation_ = configuration_.modeOfOperationEnum

\* C16: an updateWrite call emits exactly one frame, of the configured variant
\* and carrying the cyclic control word, when the active mode is not NA and the
\* variant is supported; it emits none and adds ModeOfOperationError when the
\* mode is NA, none and adds RxPdoTypeError when the variant is unsupported;
\* after either error the next updateRead and updateWrite can run.
C16_OneFramePerWrite ==
  /\ [][updateWrite \/ updateWriteNoMode
        => IF modeOfOperation_ = "NA"
           THEN /\ lastWrite' = [frames |-> 0, error |-> "ModeOfOperationError"]
                /\ rxPdo' = rxPdo
                /\ "ModeOfOperationError" \in reading_'.errors
           ELSE IF configuration_.rxPdoTypeEnum \notin {"RxPdoStandard", "RxPdoCSP"}
           THEN /\ lastWrite' = [frames |-> 0, error |-> "RxPdoTypeError"]
                /\ rxPdo' = rxPdo
                /\ "RxPdoTypeError" \in reading_'.errors
           ELSE /\ lastWrite' = [frames |-> 1, error |-> "none"]
                /\ rxPdo'.variant = configuration_.rxPdoTypeEnum
                /\ rxPdo'.controlWord_ = controlword_'
                /\ reading_'.errors \subseteq
                     reading_.errors \cup {"PdoStateTransitionError"}]_vars
  /\ [](lastWrite.frames \in {0, 1})
  /\ [](lastWrite.error # "none"
          => ENABLED updateRead /\ ENABLED (updateWrite \/ updateWriteNoMode))

\* C16 witness: a call without a mode wrote nothing, a later call with a mode
\* wrote one frame
C16_Witness ==
  /\ "ModeOfOperationError" \in reading_.errors
  /\ lastWrite = [frames |-> 1, error |-> "none"]
  /\ rxPdo.variant = "RxPdoStandard"
  /\ rxPdo.modeOfOperation_ = "CyclicSynchronousVelocityMode"

\* the transitions of a list of written control words, as a set
Transitions(issued) == {issued[i] : i \in 1..Len(issued)}

\* C17 as claimed: whenever setDriveStateViaSdo fails (no defined mapping, or
\* the status read or a control-word write failed) it returns false and has
\* added SdoStateTransitionError to the Reading's error set.
C17_FailureAddsError ==
  sdo.requested # "NA" /\ ~sdo.success
    => sdo.error /\ "SdoStateTransitionError" \in reading_.errors

\* C18: from each of the six drive states, when every read and write succeeds
\* and the drive performs each commanded transition, preShutdown leaves the
\* drive in SwitchOnDisabled.
C18_PreShutdownDisables ==
  preShutdownCall.called /\ preShutdownCall.ok /\ preShutdownCall.initial \in SixStates
    => preShutdownCall.reached = "SwitchOnDisabled"

\* C18 witness: preShutdown took a faulted drive to SwitchOnDisabled
C18_Witness ==
  /\ preShutdownCall.called
  /\ preShutdownCall.ok
  /\ preShutdownCall.initial = "Fault"
  /\ preShutdownCall.issued = <<15, 2, 3, 4, 11, 12>>
  /\ drive = "SwitchOnDisabled"

\* C19 as claimed: from SwitchOnDisabled, ReadyToSwitchOn, SwitchedOn or Fault
\* preShutdown never issues transition 4 (enable operation).
C19_PreShutdownNeverEnables ==
  /\ preShutdownCall.called
  /\ preShutdownCall.initial \in {"SwitchOnDisabled", "ReadyToSwitchOn", "SwitchedOn", "Fault"}
  => 4 \notin Transitions(preShutdownCall.issued)

\* C20 as claimed: startup changes the Configuration in at most the nominal
\* current, only when that was 0 at entry and only to a value successfully read
\* from the device; a failed step leaves the other steps attempted, makes
\* startup return false and adds ConfigurationError; with every step
\* succeeding startup returns true and adds no ConfigurationError.
C20_StartupBackfillsOnly ==
  [][\A failed \in SUBSET StartupSteps,
        nominalCurrent \in DeviceNominalCurrents \cup UninitializedNominalCurrents :
       startup(failed, nominalCurrent) =>
         /\ configuration_' = [configuration_ EXCEPT !.nominalCurrentA = configuration_'.nominalCurrentA]
         /\ configuration_' # configuration_ =>
              /\ configuration_.nominalCurrentA = 0
              /\ "sendSdoRead" \notin failed
              /\ configuration_'.nominalCurrentA = NominalCurrentA(nominalCurrent)
         /\ startupCall'.attempted = StartupAttempted
         /\ failed # {} =>
              ~startupCall'.success /\ "ConfigurationError" \in reading_'.errors
         /\ failed = {} =>
              startupCall'.success /\ reading_'.errors = reading_.errors]_vars

\* the wire values of the commands the staging threads pass, and of the
\* command staged at construction
ConvertedCommands ==
  {doUnitConversion(command) : command \in StageCommands} \cup {doUnitConversion(Command("NA", 0, 0))}

\* C13 as claimed: under any interleaving of stageCommand calls with
\* updateWrite, every emitted frame takes all its staged fields from one
\* single, fully unit-converted stageCommand call, never from a blend of two
\* commands and never from a command whose conversion has not finished.
C13_FrameFromOneCommand ==
  lastWrite.frames = 1 =>
    \E command \in ConvertedCommands :
      /\ rxPdo.targetPosition_ = command.targetPositionRaw
      /\ rxPdo.positionOffset_ = command.positionOffsetRaw

\* C14 as claimed: the copy getReading returns while updateRead is under way
\* equals the Reading as it was entirely before or entirely after that update.
C14_SnapshotNotTorn ==
  threads.reader.returned /\ threads.reader.during =>
    threads.reader.reading \in {threads.reader.before, threads.reader.after}

\* a staging thread inside stageCommand can take its next step whatever the
\* cycle lock and the Reading's lock are: it waits for stagedCommandMutex_ only
StagerWaitsForStagedLockOnly ==
  \A s \in Stagers :
    /\ threads.stager[s].pc = "lock" /\ stagedCommandMutex_ = "none"
         => ENABLED stageCommandLock(s)
    /\ threads.stager[s].pc = "assign" => ENABLED stageCommandAssign(s)
    /\ threads.stager[s].pc = "convert" => ENABLED stageCommandConvert(s)
    /\ threads.stager[s].pc = "mode" => ENABLED stageCommandReturn(s)

\* the cycle thread inside updateRead or updateWrite can take its next step
\* whatever stagedCommandMutex_ is
CycleNeverWaitsForStagedLock ==
  /\ threads.cycle.pc = "updateRead" /\ mutex_ = "none" => ENABLED updateReadStatusword
  /\ threads.cycle.pc = "statusword" => ENABLED updateReadReturn
  /\ threads.cycle.pc = "updateWrite" /\ mutex_ = "none" /\ readingMutex_ = "none"
       => ENABLED updateWriteEngage
  /\ threads.cycle.pc = "engaged" => ENABLED updateWriteTargetPosition
  /\ threads.cycle.pc = "targetPosition" => ENABLED updateWritePositionOffset
  /\ threads.cycle.pc = "positionOffset" => ENABLED updateWriteReturn

C21_EvaluatesFreshReadOnly ==
  [][updateWrite /\ Engaged => hist.decodedSinceEvaluation]_vars

\* C22 as claimed: every step that reads or writes the lifecycle/cycle state
\* (here the active mode of operation in stageCommand, lines 364-376, and the
\* flags, counter and time point in updateRead, updateWrite and the wait loop
\* of setDriveStateViaPdo) is taken by a thread that holds mutex_.
C22_LifecycleStateUnderMutex ==
  [][/\ \A s \in Stagers : stageCommandReturn(s) => mutex_ = s
     /\ updateReadReturn => mutex_ = "cycle"
     /\ updateWriteEngage => mutex_' = "cycle"
     /\ updateWriteReturn => mutex_ = "cycle"
     /\ PdoWaitSuccess \/ PdoWaitTimeout \/ PdoWaitSleep => mutex_ = "caller"]_vars

\* C23: a caller waiting in setDriveStateViaPdo does not hold mutex_ while it
\* sleeps between polls, every return path releases the lock it held, and
\* updateRead and updateWrite can take the lock whenever the caller sleeps.
C23_WaitReleasesLock ==
  /\ [](caller.pc \in {"sleep", "idle"} => mutex_ # "caller")
  /\ [](caller.pc = "sleep" /\ mutex_ = "none"
          => ENABLED updateRead /\ ENABLED (updateWrite \/ updateWriteNoMode))
  /\ [][PdoWaitSuccess \/ PdoWaitTimeout \/ PdoWaitSleep
          => mutex_ = "caller" /\ mutex_' = "none"]_vars
  /\ [][\A driveState \in WaitTargets : setDriveStateViaPdo(driveState, FALSE)
          => mutex_' = "none"]_vars

\* C23 witness: while the caller sleeps in its wait loop the cycle thread has
\* read a frame and written one
C23_Witness ==
  /\ caller.pc = "sleep"
  /\ mutex_ = "none"
  /\ hasRead_
  /\ lastWrite.frames = 1

\* every hop of the path from the initially observed state is issued, in
\* order, whatever failed, and the drive obeys those that were written
SdoIssuesWholePath ==
  sdo.requested # "NA" =>
    /\ sdo.issued = SdoTransitions(sdo.requested, sdo.current).path
    /\ sdo.failedWrite \in 0..Len(sdo.issued)
    /\ sdo.readOk => sdo.reached = ObeyWritten(sdo.current, sdo.issued, 1, sdo.failedWrite)

\* C24 as claimed: setDriveStateViaSdo reads the status once, issues every hop
\* of the path computed from that state even when the read or an earlier
\* write failed, and returns true exactly when the read and all issued writes
\* succeeded.
C24_TrueIffReadAndWritesSucceed ==
  /\ SdoIssuesWholePath
  /\ sdo.requested # "NA" => (sdo.success <=> sdo.readOk /\ sdo.failedWrite = 0)

\* C24 amended: as claimed, but the call returns true exactly when the read and
\* all issued writes succeeded and the pair of requested and observed state has
\* a branch in the switch.
C24_TrueIffMappedAndSucceeded ==
  /\ SdoIssuesWholePath
  /\ sdo.requested # "NA" =>
       (sdo.success <=>
          /\ sdo.readOk
          /\ sdo.failedWrite = 0
          /\ SdoTransitions(sdo.requested, sdo.current).defined)

\* C24 witness: from Fault to QuickStopActive the first write fails and the
\* four others are still issued
C24_Witness ==
  /\ sdo.requested = "QuickStopActive"
  /\ sdo.current = "Fault"
  /\ sdo.readOk
  /\ sdo.failedWrite = 1
  /\ sdo.issued = <<15, 2, 3, 4, 11>>
  /\ ~sdo.success

\* C25 as claimed: in every frame updateWrite emits, for every variant, the
\* mode-of-operation byte is the active mode of operation at that write.
C25_FrameCarriesActiveMode ==
  [][updateWrite /\ lastWrite'.frames = 1
       => rxPdo'.modeOfOperation_ = modeOfOperation_]_vars

\* C26 as claimed: with two threads calling setDriveStateViaPdo, a waiting
\* call returns true only when the state confirmed is that call's own target.
C26_WaitSucceedsForOwnTargetOnly ==
  [][PdoWaitSuccess => targetDriveState_ = caller.driveState]_vars

\* the transition ids the cyclic channel commands one after the other for a
\* drive that performs each of them: getNextStateTransitionControlword is
\* applied to the state reached until it is the requested one, no transition
\* is returned, or `hops` transitions were commanded
RECURSIVE CyclicPath(_, _, _)
CyclicPath(requested, current, hops) ==
  LET next == getNextStateTransitionControlword(requested, current)
  IN IF current = requested \/ hops = 0 \/ next.error \/ next.controlword = 0
     THEN << >>
     ELSE <<next.controlword>> \o CyclicPath(requested, Obey(current, next.controlword), hops - 1)

\* C28: for every pair with requested one of the five commandable states and
\* current different from requested, the transitions the cyclic channel
\* commands hop by hop on an obeying drive are exactly the ordered list of
\* transitions setDriveStateViaSdo issues for the pair.
C28_ChannelsAgree ==
  sdo.requested \in CommandableStates /\ sdo.current # sdo.requested
    => sdo.issued = CyclicPath(sdo.requested, sdo.current, LongestSdoPath + 1)

\* C28 witness: ReadyToSwitchOn requested with the drive in QuickStopActive,
\* both channels command 12 then 2
C28_Witness ==
  /\ sdo.requested = "ReadyToSwitchOn"
  /\ sdo.current = "QuickStopActive"
  /\ sdo.issued = <<12, 2>>
  /\ CyclicPath("ReadyToSwitchOn", "QuickStopActive", LongestSdoPath + 1) = <<12, 2>>

\* C29: where mode changes are allowed, staging a command of mode NA makes NA
\* the active mode; while the active mode is NA every updateWrite emits no
\* frame, adds ModeOfOperationError and leaves the lifecycle controller's
\* state alone, so a pending state change is neither advanced nor completed
\* and a caller waiting for it returns only by timeout, with false.
C29_NoModeNoProgress ==
  /\ [][\A command \in StagedCommands :
          stageCommand(command) /\ allowModeChange_ /\ command.modeOfOperation = "NA"
            => modeOfOperation_' = "NA"]_vars
  /\ [][modeOfOperation_ = "NA" /\ (updateWriteNoMode \/ updateWrite)
          => /\ lastWrite'.frames = 0
             /\ rxPdo' = rxPdo
             /\ "ModeOfOperationError" \in reading_'.errors
             /\ hist' = hist
             /\ UNCHANGED <<controlword_, conductStateChange_, stateChangeSuccessful_, hasRead_,
                            targetDriveState_, numberOfSuccessfulTargetStateReadings_>>]_vars
  /\ [][modeOfOperation_ = "NA" /\ modeOfOperation_' = "NA" /\ conductStateChange_
          => /\ conductStateChange_' /\ ~stateChangeSuccessful_'
             /\ controlword_' = controlword_
             /\ caller.pc = "check" /\ caller'.pc = "idle"
                  => PdoWaitTimeout /\ caller'.returned = "false"]_vars

\* C29 witness: mode changes allowed, NA staged, the last updateWrite emitted
\* no frame and reported ModeOfOperationError, the request is still pending
\* and the waiting caller has returned false
C29_Witness ==
  /\ allowModeChange_
  /\ modeOfOperation_ = "NA"
  /\ stagedCommand_.modeOfOperation = "NA"
  /\ lastWrite = [frames |-> 0, error |-> "ModeOfOperationError"]
  /\ "ModeOfOperationError" \in reading_.errors
  /\ conductStateChange_
  /\ caller.waitForState /\ caller.pc = "idle" /\ caller.returned = "false"

\* C27: from each of the six drive states and for each of the five commandable
\* targets, with a resolved mode, supported frame variants, an obeying drive,
\* a running cycle thread, an advancing clock and no other request armed, a
\* request that does not wait eventually completes: stateChangeSuccessful_ is
\* set and the pending flag cleared with the decoded state equal to the target.
C27_RequestCompletes ==
  conductStateChange_
    ~> /\ stateChangeSuccessful_
       /\ ~conductStateChange_
       /\ reading_.driveState = targetDriveState_
       /\ hist.completionSignalled

\* C27 witness: a request for QuickStopActive has completed, the drive was
\* brought there by transition 11 as the last one
C27_Witness ==
  /\ stateChangeSuccessful_ /\ ~conductStateChange_
  /\ targetDriveState_ = "QuickStopActive"
  /\ reading_.driveState = "QuickStopActive"
  /\ drive = "QuickStopActive"
  /\ controlword_ = 11
  /\ hist.completionSignalled

====
